---------------------------- MODULE Spec2Model ----------------------------
(***************************************************************************)
(* Model of the ENEL incremental reconciliation engine                     *)
(* (teo1264/enel-system): the consumption classifier, the trailing-average *)
(* calculator, the SQLite record store (DatabaseEnel), the monthly ledger  *)
(* (PlanilhaManagerEnel) and the incremental e-mail batch with its         *)
(* duplicate guard (EmailProcessor / SistemaEnel).                         *)
(*                                                                         *)
(* Numbers.  Python floats are modelled by exact arithmetic: a quotient is *)
(* kept as a fraction [num, den] (den > 0) and compared by cross           *)
(* multiplication.  Consumptions handed to the classifier are in           *)
(* hundredths of a kWh (150.01 kWh is 15001), amounts are in centavos.     *)
(* Strings are written without diacritics ("Critico" is the code's         *)
(* 'Crítico', "Nao" its 'Não', "ERRO_EXTRACAO" its 'ERRO_EXTRAÇÃO').       *)
(***************************************************************************)
EXTENDS Integers, Sequences, FiniteSets, TLC

VARIABLES
    \* --- classificador_consumo.determinar_tipo_alerta_consumo (pure) ---
    consumo_atual,          \* argument, hundredths of kWh (NoneNum: Python None)
    media_6_meses,          \* argument, hundredths of kWh (NoneNum: Python None)
    classificacao,          \* the dict returned, or Nenhum before the call
    \* --- calculo_enel.calcular_media_e_diferenca_enel (pure) ---
    historico_consumo,      \* argument: sequence of consumptions, newest first
    resultado_calculo,      \* the tuple returned, or Nenhum before the call
    \* --- DatabaseEnel ---
    faturas_enel,           \* rows of table faturas_enel in the local SQLite file
    db_onedrive,            \* the copy of the database file kept on OneDrive
    \* --- PlanilhaManagerEnel ---
    relacionamentos_dados,  \* registros of the relationship sheet, <<>> before loading
    controle_mensal_dados,  \* rows of the monthly ledger, <<>> before loading
    estatisticas_duplicatas,
    \* --- EmailProcessor ---
    emails_processados_cache,   \* ids of the messages already handled
    \* --- history ---
    baixados,               \* per message id: attachment downloads in this process (0, 1, 2 = more)
    aceitas,                \* per installation: invoices accepted in the period (0, 1, 2 = more)
    vida,                   \* process restarts so far
    \* --- history of the last call (what it was given, what it returned) ---
    ult

varsClassificador == <<consumo_atual, media_6_meses, classificacao>>
varsCalculo == <<historico_consumo, resultado_calculo>>
varsDatabase == <<faturas_enel, db_onedrive>>
varsPlanilha == <<relacionamentos_dados, controle_mensal_dados, estatisticas_duplicatas>>

\* The two pure functions on one side, the stateful system on the other.
varsPuros == <<varsClassificador, varsCalculo>>
varsEmail == <<emails_processados_cache>>
varsHistoria == <<baixados, aceitas, vida>>
varsSistema == <<varsDatabase, varsPlanilha, varsEmail, varsHistoria, ult>>

vars == <<varsPuros, varsSistema>>

\* Python None among numbers: no number of the model equals it.
NoneNum == -999999

\* "No value yet" for a variable that later holds a record.
Nenhum == [nenhum |-> TRUE]

\* Python None among strings and byte strings.
NoneTxt == "<None>"

\* No call made yet.
SemChamada == [op |-> "nenhuma"]

\* The element of a set of one element: used to name the value of a call
\* that is read several times.
Unico(S) == CHOOSE x \in S : TRUE

(***************************************************************************)
(* Exact fractions                                                         *)
(***************************************************************************)
Frac(n, d) == [num |-> n, den |-> d]

FracGt(f, k) == f.num > k * f.den
FracGe(f, k) == f.num >= k * f.den
FracLt(f, k) == f.num < k * f.den
FracLe(f, k) == f.num <= k * f.den
FracEq(f, g) == f.num * g.den = g.num * f.den

(***************************************************************************)
(* classificador_consumo.py                                                *)
(***************************************************************************)
\* The dict built by each branch: tipo_alerta (message side), classificacao
\* (ledger side) and the three computed numbers.
ResultadoClassificacao(tipo, classe, pct, difPct, difAbs) ==
    [tipo_alerta |-> tipo, classificacao |-> classe,
     porcentagem_consumo |-> pct, diferenca_percentual |-> difPct,
     diferenca_absoluta |-> difAbs]

\* `not x or x <= 0`: None and 0 are falsy, negatives fail the comparison.
Invalido(x) == x = NoneNum \/ x <= 0

\* The four tier conditions of the escalation ladder, in evaluation order.
\* Mutant of FaixaCritico: the critical tier starts at 150 % inclusive.
FaixaCritico_inclusive(p) == FracGe(p, 150)

FaixaCritico(p) == FracGt(p, 150)

FaixaAlto(p) == FracGe(p, 100) /\ FracLe(p, 150)

FaixaAcimaMedia(p) == FracGe(p, 50) /\ FracLt(p, 100)

\* FaixaModerado that leaves 25 % to 50 % to the fallback branch.
FaixaModerado_abaixo_de_25(p) == FracLt(p, 25)

FaixaModerado(p) == FracLt(p, 50)

determinar_tipo_alerta_consumo(consumo, media) ==
    IF Invalido(consumo)
    THEN ResultadoClassificacao("sem_dados", "Sem Dados", Frac(0, 1), Frac(0, 1), 0)
    ELSE IF Invalido(media)
    THEN ResultadoClassificacao("sem_historico", "Sem Historico", Frac(100, 1), Frac(0, 1), 0)
    ELSE
      LET porcentagem_consumo == Frac(consumo * 100, media)
          diferenca_percentual == Frac((consumo - media) * 100, media)
          diferenca_absoluta == consumo - media
      IN  IF FaixaCritico(porcentagem_consumo)
          THEN ResultadoClassificacao("consumo_critico", "Critico",
                   porcentagem_consumo, diferenca_percentual, diferenca_absoluta)
          ELSE IF FaixaAlto(porcentagem_consumo)
          THEN ResultadoClassificacao("consumo_alto", "Alto",
                   porcentagem_consumo, diferenca_percentual, diferenca_absoluta)
          ELSE IF FaixaAcimaMedia(porcentagem_consumo)
          THEN ResultadoClassificacao("consumo_acima_media", "Acima da Media",
                   porcentagem_consumo, diferenca_percentual, diferenca_absoluta)
          ELSE IF FaixaModerado(porcentagem_consumo)
          THEN ResultadoClassificacao("consumo_moderado", "Moderado",
                   porcentagem_consumo, diferenca_percentual, diferenca_absoluta)
          ELSE ResultadoClassificacao("consumo_normal", "Normal",
                   porcentagem_consumo, diferenca_percentual, diferenca_absoluta)

\* Legacy entry point: classifies a percentage given directly.
determinar_alerta_consumo_legacy(porcentagem_consumo) ==
    IF FracGt(porcentagem_consumo, 150) THEN "Critico"
    ELSE IF FracGe(porcentagem_consumo, 100) /\ FracLe(porcentagem_consumo, 150) THEN "Alto"
    ELSE IF FracGe(porcentagem_consumo, 50) /\ FracLt(porcentagem_consumo, 100) THEN "Acima da Media"
    ELSE IF FracLt(porcentagem_consumo, 50) THEN "Moderado"
    ELSE "Normal"


(***************************************************************************)
(* calculo_enel.py                                                         *)
(***************************************************************************)
RECURSIVE SomaSeq(_)
SomaSeq(s) == IF s = <<>> THEN 0 ELSE Head(s) + SomaSeq(Tail(s))

Min(a, b) == IF a < b THEN a ELSE b

\* Mutant of Ultimos6Meses: the slice takes seven entries (h[1:8]).
Ultimos6Meses_sete(h) == SubSeq(h, 2, Min(8, Len(h)))

\* historico_consumo[1:7] if len >= 7 else historico_consumo[1:]
\* (Python indices from 0; here positions from 1).
Ultimos6Meses(h) == IF Len(h) >= 7 THEN SubSeq(h, 2, 7) ELSE SubSeq(h, 2, Len(h))

\* ConsumoValido that lets every entry into the mean.
ConsumoValido_todos(c) == TRUE

\* if consumo > 0: consumos_6_meses.append(consumo)
ConsumoValido(c) == c > 0

ResultadoCalculo(atual, media, dif) ==
    [consumo_atual |-> atual, media_6_meses |-> media, diferenca_percentual |-> dif]

\* Returns (consumo_atual, media_6_meses, diferenca_percentual); the two
\* quotients are fractions.
calcular_media_e_diferenca_enel(h) ==
    IF Len(h) < 1 THEN ResultadoCalculo(0, Frac(0, 1), Frac(0, 1))
    ELSE LET atual == h[1] IN
      IF Len(h) < 2 THEN ResultadoCalculo(atual, Frac(0, 1), Frac(0, 1))
      ELSE LET ultimos_6_meses == Ultimos6Meses(h) IN
        IF ultimos_6_meses = <<>> THEN ResultadoCalculo(atual, Frac(0, 1), Frac(0, 1))
        ELSE LET consumos_6_meses == SelectSeq(ultimos_6_meses, ConsumoValido) IN
          IF consumos_6_meses = <<>> THEN ResultadoCalculo(atual, Frac(0, 1), Frac(0, 1))
          ELSE LET soma == SomaSeq(consumos_6_meses)
                   n == Len(consumos_6_meses)
                   media == Frac(soma, n)
               IN  IF FracGt(media, 0)
                   THEN ResultadoCalculo(atual, media, Frac((atual * n - soma) * 100, soma))
                   ELSE ResultadoCalculo(atual, media, Frac(0, 1))

(***************************************************************************)
(* Bounds of the two pure-function specifications                          *)
(***************************************************************************)
MaxConsumo == 12    \* classifier arguments range over -1..MaxConsumo
MaxMedia == 8
MaxHistorico == 8   \* history length: the 8th entry must exist to be ignored

\* The boundary cases the specification pins (P2), in hundredths of kWh.
PontosP2 == { <<15000, 10000>>, <<15001, 10000>>, <<10000, 10000>>, <<9999, 10000>>,
              <<5000, 10000>>, <<4999, 10000>>, <<0, 10000>>, <<10000, 0>> }

ArgumentosClassificador ==
    PontosP2 \cup (((-1..MaxConsumo) \cup {NoneNum}) \X ((-1..MaxMedia) \cup {NoneNum}))

\* Consumptions a history entry may hold: an invalid one (0) and two valid ones.
ConsumosHistorico == {0, 600, 900}

RECURSIVE SeqsAte(_, _)
SeqsAte(S, n) ==
    IF n = 0 THEN {<<>>}
    ELSE LET menores == SeqsAte(S, n - 1)
         IN  menores \cup {Append(s, x) : s \in {t \in menores : Len(t) = n - 1}, x \in S}

(***************************************************************************)
(* Specification of the classifier: arguments are drawn, then one call.    *)
(***************************************************************************)
InitCalculoParado == historico_consumo = <<>> /\ resultado_calculo = Nenhum

InitClassificadorParado ==
    consumo_atual = NoneNum /\ media_6_meses = NoneNum /\ classificacao = Nenhum

InitDatabaseParado ==
    /\ faturas_enel = <<>>
    /\ db_onedrive = [existe |-> FALSE, faturas |-> <<>>]

\* PlanilhaManagerEnel.__init__
EstatisticasIniciais ==
    [emails_duplicados |-> 0, faturas_duplicadas |-> 0, instalacoes_reprocessadas |-> <<>>]

InitPlanilhaParada ==
    /\ relacionamentos_dados = <<>>
    /\ controle_mensal_dados = <<>>
    /\ estatisticas_duplicatas = EstatisticasIniciais

\* Messages of the ENEL folder and installations of the relationship sheet.
IdsEmail == {"msg1", "msg2"}
Instalacoes == {"111", "222"}

\* EmailProcessor.__init__, and nothing downloaded or accepted yet.
InitEmailParado ==
    /\ emails_processados_cache = {}
    /\ baixados = [id \in IdsEmail |-> 0]
    /\ aceitas = [instalacao \in Instalacoes |-> 0]
    /\ vida = 0

InitSistemaParado ==
    InitDatabaseParado /\ InitPlanilhaParada /\ InitEmailParado /\ ult = SemChamada

InitPurosParados == InitClassificadorParado /\ InitCalculoParado

InitClassificador ==
    /\ \E a \in ArgumentosClassificador : consumo_atual = a[1] /\ media_6_meses = a[2]
    /\ classificacao = Nenhum
    /\ InitCalculoParado
    /\ InitSistemaParado

Classificar ==
    /\ classificacao = Nenhum
    /\ classificacao' = determinar_tipo_alerta_consumo(consumo_atual, media_6_meses)
    /\ UNCHANGED <<consumo_atual, media_6_meses, varsCalculo, varsSistema>>

NextClassificador == Classificar

SpecClassificador == InitClassificador /\ [][NextClassificador]_vars

(***************************************************************************)
(* Specification of the calculator: a history is drawn, then one call.    *)
(***************************************************************************)
InitCalculo ==
    /\ historico_consumo \in SeqsAte(ConsumosHistorico, MaxHistorico)
    /\ resultado_calculo = Nenhum
    /\ InitClassificadorParado
    /\ InitSistemaParado

Calcular ==
    /\ resultado_calculo = Nenhum
    /\ resultado_calculo' = calcular_media_e_diferenca_enel(historico_consumo)
    /\ UNCHANGED <<historico_consumo, varsClassificador, varsSistema>>

NextCalculo == Calcular

SpecCalculo == InitCalculo /\ [][NextCalculo]_vars

(***************************************************************************)
(* C7  Classification boundaries                                           *)
(***************************************************************************)
\* The tier the specification pins for each boundary case of P2.
TipoEsperadoP2(c, m) ==
    CASE <<c, m>> = <<15000, 10000>> -> "consumo_alto"
      [] <<c, m>> = <<15001, 10000>> -> "consumo_critico"
      [] <<c, m>> = <<10000, 10000>> -> "consumo_alto"
      [] <<c, m>> = <<9999, 10000>>  -> "consumo_acima_media"
      [] <<c, m>> = <<5000, 10000>>  -> "consumo_acima_media"
      [] <<c, m>> = <<4999, 10000>>  -> "consumo_moderado"
      [] <<c, m>> = <<0, 10000>>     -> "sem_dados"
      [] <<c, m>> = <<10000, 0>>     -> "sem_historico"

\* C7: for current > 0 and average > 0, with p = current / average * 100, the
\* tier returned is critical iff p > 150, high iff 100 <= p <= 150,
\* above-average iff 50 <= p < 100, moderate iff p < 50 (the legacy entry point
\* agrees on p); and each boundary case of P2 gets the tier the specification
\* pins: (150,100) high, (150.01,100) critical, (100,100) high, (99.99,100)
\* above-average, (50,100) above-average, (49.99,100) moderate, (0,100)
\* no-data, (100,0) no-history.
C7_ClassificationBoundaries ==
    classificacao # Nenhum =>
      LET c == consumo_atual
          m == media_6_meses
          t == classificacao.tipo_alerta
      IN  /\ (c # NoneNum /\ c > 0 /\ m # NoneNum /\ m > 0) =>
                /\ t = "consumo_critico" <=> 100 * c > 150 * m
                /\ t = "consumo_alto" <=> (100 * c >= 100 * m /\ 100 * c <= 150 * m)
                /\ t = "consumo_acima_media" <=> (100 * c >= 50 * m /\ 100 * c < 100 * m)
                /\ t = "consumo_moderado" <=> 100 * c < 50 * m
                /\ determinar_alerta_consumo_legacy(Frac(c * 100, m))
                       = classificacao.classificacao
          /\ <<c, m>> \in PontosP2 => t = TipoEsperadoP2(c, m)

\* The call was made on the boundary 150.00 % and answered "high".
C7_Witness ==
    /\ classificacao # Nenhum
    /\ consumo_atual = 15000 /\ media_6_meses = 10000
    /\ classificacao.tipo_alerta = "consumo_alto"

(***************************************************************************)
(* C8  The trailing average excludes the current entry, window of six      *)
(***************************************************************************)
\* Positions (from 1) of the six entries after the current one that are valid.
PosicoesJanela(h) == {i \in 2..7 : i <= Len(h) /\ h[i] > 0}

RECURSIVE SomaPos(_, _)
SomaPos(h, P) ==
    IF P = {} THEN 0 ELSE LET i == CHOOSE j \in P : TRUE IN h[i] + SomaPos(h, P \ {i})

\* C8: for a history of at least two entries (most recent first) the call
\* returns current = entry 0 and trailing_average = the arithmetic mean of the
\* valid entries at positions 1..6 (0-based) only; replacing entry 0, or any
\* entry at position 7 or later, by any other value leaves the average
\* unchanged.
C8_TrailingWindow ==
    (resultado_calculo # Nenhum /\ Len(historico_consumo) >= 2) =>
      LET h == historico_consumo
          P == PosicoesJanela(h)
          media == resultado_calculo.media_6_meses
      IN  /\ resultado_calculo.consumo_atual = h[1]
          /\ IF P = {} THEN media.num = 0
             ELSE media.num * Cardinality(P) = SomaPos(h, P) * media.den
          /\ \A v \in ConsumosHistorico :
               FracEq(calcular_media_e_diferenca_enel([h EXCEPT ![1] = v]).media_6_meses,
                      media)
          /\ \A i \in 8..Len(h) : \A v \in ConsumosHistorico :
               FracEq(calcular_media_e_diferenca_enel([h EXCEPT ![i] = v]).media_6_meses,
                      media)

\* A history of eight entries whose first and eighth entries differ from the
\* six in between: the average is that of the six.
C8_Witness ==
    /\ resultado_calculo # Nenhum
    /\ Len(historico_consumo) = 8
    /\ historico_consumo[1] = 900 /\ historico_consumo[8] = 900
    /\ \A i \in 2..7 : historico_consumo[i] = 600
    /\ FracEq(resultado_calculo.media_6_meses, Frac(600, 1))

(***************************************************************************)
(* database_enel.py: the record store                                      *)
(***************************************************************************)
\* `if pdf_content:` is false for None and for the empty byte string.
Truthy(pdf_content) == pdf_content # NoneTxt /\ pdf_content # ""

\* hashlib.md5(...).hexdigest(): a digest determined by the bytes alone and
\* not injective (pdfA and pdfA_colisao are different bytes with one digest).
md5(pdf_content) ==
    CASE pdf_content = "pdfA" -> "d41a"
      [] pdf_content = "pdfA_colisao" -> "d41a"
      [] pdf_content = "pdfB" -> "9e10"
      [] pdf_content = "pdfC" -> "77c3"
      [] pdf_content = "pdfD" -> "b5f2"
      [] OTHER -> "0000"

\* base64.b64encode(...).decode('utf-8')
b64encode(pdf_content) == "b64:" \o pdf_content

\* Mutant of HashDuplicado: the SELECT by hash never finds a row.
HashDuplicado_nunca(faturas, hash_arquivo) == FALSE

\* SELECT id FROM faturas_enel WHERE hash_arquivo = ? returns a row.
HashDuplicado(faturas, hash_arquivo) ==
    \E i \in 1..Len(faturas) : faturas[i].hash_arquivo = hash_arquivo

\* The row of the INSERT (the columns the model follows).
LinhaFatura(dados_fatura, email_id, hash_arquivo, content_b64) ==
    [email_id |-> email_id,
     nome_arquivo_original |-> dados_fatura.arquivo,
     hash_arquivo |-> hash_arquivo,
     content_bytes |-> content_b64,
     competencia |-> dados_fatura.competencia,
     valor |-> dados_fatura.valor_total_num,
     consumo_kwh |-> dados_fatura.consumo_kwh_num,
     numero_instalacao |-> dados_fatura.numero_instalacao,
     dados_extraidos_ok |-> IF dados_fatura.valor_total_num # NoneNum THEN 1 ELSE 0]

\* _fazer_backup_onedrive: uploads the whole local file; `sucesso` is what
\* onedrive.salvar_arquivo_binario answers (FALSE also stands for a missing
\* OneDrive manager and for an exception, which all return False).
fazer_backup_onedrive(faturas, onedrive, sucesso) ==
    IF sucesso
    THEN [retorno |-> TRUE, onedrive |-> [existe |-> TRUE, faturas |-> faturas]]
    ELSE [retorno |-> FALSE, onedrive |-> onedrive]

\* inserir_fatura: the value returned, the table and the OneDrive copy after
\* the call, and what the backup answered ("nao_tentado" when no row was
\* inserted).  email_id is NOT NULL in the schema: None raises inside the
\* try and the call returns False.
inserir_fatura(faturas, onedrive, dados_fatura, email_id, pdf_content, sucesso) ==
    LET hash_arquivo == IF Truthy(pdf_content) THEN md5(pdf_content) ELSE NoneTxt
        content_b64 == IF Truthy(pdf_content) THEN b64encode(pdf_content) ELSE NoneTxt
    IN  IF hash_arquivo # NoneTxt /\ HashDuplicado(faturas, hash_arquivo)
        THEN [retorno |-> FALSE, faturas |-> faturas, onedrive |-> onedrive,
              backup |-> "nao_tentado"]
        ELSE IF email_id = NoneTxt
        THEN [retorno |-> FALSE, faturas |-> faturas, onedrive |-> onedrive,
              backup |-> "nao_tentado"]
        ELSE LET novas == Append(faturas,
                              LinhaFatura(dados_fatura, email_id, hash_arquivo, content_b64))
                 bk == fazer_backup_onedrive(novas, onedrive, sucesso)
             IN  [retorno |-> TRUE, faturas |-> novas, onedrive |-> bk.onedrive,
                  backup |-> IF bk.retorno THEN "ok" ELSE "falhou"]

\* _inicializar_database / _baixar_database_onedrive: a copy found on OneDrive
\* overwrites the local file; without one the local file is what the disk
\* kept (`disco_mantido`) or a new empty database.
baixar_database_onedrive(faturas, onedrive, disco_mantido) ==
    IF onedrive.existe THEN onedrive.faturas
    ELSE IF disco_mantido THEN faturas ELSE <<>>

(***************************************************************************)
(* pdf_processor.py: the record extraction hands over                      *)
(***************************************************************************)
\* The closing steps of _extrair_campos_enel: total compensation, the
\* photovoltaic flag and the photovoltaic economics, computed from the
\* converted fields.  Amounts are in centavos, valor_total_num is NoneNum when
\* the total could not be extracted, consumo_kwh_num and the two energies are
\* integers of kWh, saldo_creditos_num is in hundredths of kWh.
campos_enel_com_energia(arquivo, numero_instalacao, competencia, data_emissao, nota_fiscal, data_vencimento, valor_total_num, consumo_kwh_num, compensacao_tusd_num, compensacao_te_num, energia_injetada_num, energia_compensada_num, saldo_creditos_num) ==
    LET total_compensacao == compensacao_tusd_num + compensacao_te_num
        tem_fotovoltaico == \/ energia_injetada_num > 0
                            \/ energia_compensada_num > 0
                            \/ total_compensacao > 0
                            \/ saldo_creditos_num > 0
        valor_verdadeiro == valor_total_num # NoneNum /\ valor_total_num # 0
        valor_integral == valor_total_num + total_compensacao
    IN  [arquivo |-> arquivo,
         numero_instalacao |-> numero_instalacao,
         competencia |-> competencia,
         data_emissao |-> data_emissao,
         nota_fiscal |-> nota_fiscal,
         data_vencimento |-> data_vencimento,
         valor_total_num |-> valor_total_num,
         consumo_kwh_num |-> consumo_kwh_num,
         compensacao_tusd_num |-> compensacao_tusd_num,
         compensacao_te_num |-> compensacao_te_num,
         total_compensacao |-> total_compensacao,
         sistema_fotovoltaico |-> IF tem_fotovoltaico THEN "Sim" ELSE "Nao",
         valor_integral_sem_fv |->
             IF tem_fotovoltaico /\ valor_verdadeiro THEN valor_integral
             ELSE valor_total_num,
         percentual_economia_fv |->
             IF tem_fotovoltaico /\ valor_verdadeiro /\ valor_integral > 0
             THEN Frac(total_compensacao * 100, valor_integral)
             ELSE Frac(0, 1)]

\* The same for an invoice whose text has no injected energy, no compensated
\* energy and no credit balance: the three numbers are 0.
campos_enel(arquivo, numero_instalacao, competencia, data_emissao, nota_fiscal, data_vencimento, valor_total_num, consumo_kwh_num, compensacao_tusd_num, compensacao_te_num) ==
    campos_enel_com_energia(arquivo, numero_instalacao, competencia, data_emissao,
                            nota_fiscal, data_vencimento, valor_total_num,
                            consumo_kwh_num, compensacao_tusd_num, compensacao_te_num,
                            0, 0, 0)

\* extrair_dados_fatura on the four invoices of the model: two different
\* invoices of installation 111 for the same month (the second with
\* photovoltaic compensation), one of installation 222 whose total could not
\* be read, one of an installation that is not in the relationship sheet.
\* For a file pdfplumber cannot open the extraction returns None.
extrair_dados_fatura(pdf_content) ==
    CASE pdf_content = "pdfIlegivel" -> Nenhum
      [] pdf_content = "pdfA" ->
           campos_enel("a.pdf", "111", "06/2025", "10/06/2025", "718968230",
                       "14/07/2025", 12637, 850, 0, 0)
      [] pdf_content = "pdfB" ->
           campos_enel("b.pdf", "111", "06/2025", "12/06/2025", "718968999",
                       "16/07/2025", 9900, 500, 1000, 500)
      [] pdf_content = "pdfC" ->
           campos_enel("c.pdf", "222", "06/2025", "11/06/2025", "718970001",
                       "15/07/2025", NoneNum, 0, 0, 0)
      [] OTHER ->
           campos_enel("d.pdf", "999", "06/2025", "09/06/2025", "718971111",
                       "13/07/2025", 5000, 100, 0, 0)

(***************************************************************************)
(* Specification of the record store: DatabaseEnel called directly         *)
(***************************************************************************)
MaxFaturas == 3     \* rows the table may hold

\* Byte strings handed to inserir_fatura: None, empty, three invoices (two of
\* them with the same digest).
ConteudosPDF == {NoneTxt, "", "pdfA", "pdfA_colisao", "pdfB"}

IdsEmailDatabase == {NoneTxt, "msg1", "msg2"}

\* What the OneDrive folder holds when the process starts: nothing, or a
\* database with the invoice of an earlier month.
FaturaMesAnterior ==
    [email_id |-> "msg0", nome_arquivo_original |-> "m.pdf", hash_arquivo |-> "a0a0",
     content_bytes |-> "b64:pdfM", competencia |-> "05/2025", valor |-> 8000,
     consumo_kwh |-> 400, numero_instalacao |-> "111", dados_extraidos_ok |-> 1]

DatabasesIniciais ==
    { [existe |-> FALSE, faturas |-> <<>>],
      [existe |-> TRUE, faturas |-> <<FaturaMesAnterior>>] }

InitDatabase ==
    /\ db_onedrive \in DatabasesIniciais
    /\ faturas_enel = baixar_database_onedrive(<<>>, db_onedrive, FALSE)
    /\ ult = SemChamada
    /\ InitPlanilhaParada
    /\ InitEmailParado
    /\ InitPurosParados

\* DatabaseEnel.inserir_fatura(dados_fatura, email_id, pdf_content)
InserirFatura ==
    /\ Len(faturas_enel) < MaxFaturas
    /\ \E pdf_content \in ConteudosPDF, email_id \in IdsEmailDatabase,
          origem \in {"pdfA", "pdfC"}, sucesso \in BOOLEAN :
         LET r == inserir_fatura(faturas_enel, db_onedrive,
                                 extrair_dados_fatura(origem), email_id,
                                 pdf_content, sucesso)
         IN  /\ faturas_enel' = r.faturas
             /\ db_onedrive' = r.onedrive
             /\ ult' = [op |-> "inserir_fatura", pdf_content |-> pdf_content,
                        email_id |-> email_id, retorno |-> r.retorno,
                        backup |-> r.backup, n_antes |-> Len(faturas_enel)]
    /\ UNCHANGED <<varsPuros, varsPlanilha, varsEmail, varsHistoria>>

\* A new process: DatabaseEnel.__init__ -> _inicializar_database.
InicializarDatabase ==
    /\ \E disco_mantido \in BOOLEAN :
         faturas_enel' = baixar_database_onedrive(faturas_enel, db_onedrive, disco_mantido)
    /\ ult' = [op |-> "inicializar_database"]
    /\ UNCHANGED <<db_onedrive, varsPuros, varsPlanilha, varsEmail, varsHistoria>>

NextDatabase == InserirFatura \/ InicializarDatabase

SpecDatabase == InitDatabase /\ [][NextDatabase]_vars

(***************************************************************************)
(* C4  Content-hash deduplication                                          *)
(***************************************************************************)
LinhasComHash(h) == {i \in 1..Len(faturas_enel) : faturas_enel[i].hash_arquivo = h}

\* C4: inserir_fatura called with PDF bytes (a non-empty byte string) whose
\* digest is already in the table returns False and adds no row, whatever the
\* email_id and the extracted fields; called with bytes whose digest is not
\* in the table (and a message id) it returns True and appends one row
\* carrying that digest.  Hence two calls with identical bytes give True then
\* False, and no two rows of faturas_enel share a non-null hash_arquivo.
C4_HashDedup ==
    /\ \A i, j \in 1..Len(faturas_enel) :
         (i # j /\ faturas_enel[i].hash_arquivo # NoneTxt)
            => faturas_enel[i].hash_arquivo # faturas_enel[j].hash_arquivo
    /\ (ult.op = "inserir_fatura" /\ Truthy(ult.pdf_content)) =>
         LET h == md5(ult.pdf_content) IN
           /\ ult.retorno =>
                /\ Len(faturas_enel) = ult.n_antes + 1
                /\ LinhasComHash(h) = {Len(faturas_enel)}
                /\ faturas_enel[Len(faturas_enel)].email_id = ult.email_id
           /\ ~ult.retorno =>
                /\ Len(faturas_enel) = ult.n_antes
                /\ ult.email_id # NoneTxt => \E i \in 1..ult.n_antes : i \in LinhasComHash(h)

\* The second of two calls with the same bytes, under another message id, was
\* rejected: the table holds the row of the first call only.
C4_Witness ==
    /\ ult.op = "inserir_fatura" /\ ult.pdf_content = "pdfA" /\ ult.email_id = "msg2"
    /\ ~ult.retorno
    /\ \E i \in 1..Len(faturas_enel) :
         faturas_enel[i].hash_arquivo = md5("pdfA") /\ faturas_enel[i].email_id = "msg1"

(***************************************************************************)
(* C5  Durability of inserts                                               *)
(***************************************************************************)
\* C5: whenever inserir_fatura returns success, the upload of the database
\* holding the new row has succeeded before the call returned: the backup
\* answered True and the OneDrive copy equals the local table.
C5_SucessoSomenteComBackup ==
    (ult.op = "inserir_fatura" /\ ult.retorno) =>
        /\ ult.backup = "ok"
        /\ db_onedrive.existe
        /\ db_onedrive.faturas = faturas_enel

(***************************************************************************)
(* planilha_manager.py: the monthly ledger                                 *)
(***************************************************************************)
\* datetime.now() when PlanilhaManagerEnel is constructed: the period.
MesAtual == 6
AnoAtual == 2025

\* The registros _processar_excel_relacionamento_manual reads from
\* relacao_enel.xlsx (keys Casa, Instalacao, Vencimento; an empty due day is
\* stored as '0').
PlanilhaRelacionamento ==
    << [Casa |-> "CO-01", Instalacao |-> "111", Vencimento |-> "10"],
       [Casa |-> "CO-02", Instalacao |-> "222", Vencimento |-> "0"] >>

\* A relationship sheet with a house of the PIA group and two other houses.
PlanilhaComGrupos ==
    << [Casa |-> "PIA CO-03", Instalacao |-> "111", Vencimento |-> "10"],
       [Casa |-> "CO-02", Instalacao |-> "222", Vencimento |-> "0"],
       [Casa |-> "CO-04", Instalacao |-> "999", Vencimento |-> "15"] >>

\* The three rows _criar_planilha_relacionamento_exemplo_sem_pandas installs
\* when the sheet is not found.
RelacionamentoExemplo ==
    << [Casa |-> "Casa Exemplo 1", Instalacao |-> "12345678", Vencimento |-> "10"],
       [Casa |-> "Casa Exemplo 2", Instalacao |-> "87654321", Vencimento |-> "15"],
       [Casa |-> "Casa Exemplo 3", Instalacao |-> "11223344", Vencimento |-> "20"] >>

\* A relationship sheet whose due days do not all form a date: day 31, a
\* cell that is not a number, an empty cell.
PlanilhaVencimentos ==
    << [Casa |-> "CO-01", Instalacao |-> "111", Vencimento |-> "31"],
       [Casa |-> "CO-02", Instalacao |-> "222", Vencimento |-> "dia 5"],
       [Casa |-> "CO-06", Instalacao |-> "333", Vencimento |-> "0"] >>

\* A relationship sheet that lists installation 111 under two houses.
PlanilhaRepetida ==
    << [Casa |-> "CO-01", Instalacao |-> "111", Vencimento |-> "10"],
       [Casa |-> "CO-01 Anexo", Instalacao |-> "111", Vencimento |-> "20"],
       [Casa |-> "CO-02", Instalacao |-> "222", Vencimento |-> "15"] >>

\* str.strip() on the installation numbers of the model.
strip(texto) ==
    CASE texto = " 111 " -> "111"
      [] OTHER -> texto

\* f"{n:02d}"
DoisDigitos(n) == IF n < 10 THEN "0" \o ToString(n) ELSE ToString(n)

\* int(dia_vencimento) if dia_vencimento.isdigit() else 15
DiaVencimento(dia_vencimento) ==
    CASE dia_vencimento = "0" -> 0
      [] dia_vencimento = "10" -> 10
      [] dia_vencimento = "15" -> 15
      [] dia_vencimento = "20" -> 20
      [] dia_vencimento = "31" -> 31
      [] OTHER -> 15

DiasNoMes(mes, ano) ==
    IF mes \in {4, 6, 9, 11} THEN 30
    ELSE IF mes = 2 THEN (IF ano % 4 = 0 /\ (ano % 100 # 0 \/ ano % 400 = 0) THEN 29 ELSE 28)
    ELSE 31

\* DataVencimentoEsperada with day 15 whatever the sheet says.
DataVencimentoEsperada_dia15(dia_vencimento, mes, ano) ==
    "15/" \o DoisDigitos(mes) \o "/" \o ToString(ano)

\* datetime(ano, mes, dia).strftime('%d/%m/%Y'), or "15/mm/aaaa" when the
\* constructor raises.
DataVencimentoEsperada(dia_vencimento, mes, ano) ==
    LET dia == DiaVencimento(dia_vencimento)
    IN  IF dia >= 1 /\ dia <= DiasNoMes(mes, ano)
        THEN DoisDigitos(dia) \o "/" \o DoisDigitos(mes) \o "/" \o ToString(ano)
        ELSE "15/" \o DoisDigitos(mes) \o "/" \o ToString(ano)

\* round(x, 2) of a quotient, in hundredths (ties to even).
Round2(f) ==
    LET n == f.num * 100
        q == n \div f.den
        r == n - q * f.den
    IN  IF 2 * r < f.den THEN q
        ELSE IF 2 * r > f.den THEN q + 1
        ELSE IF q % 2 = 0 THEN q ELSE q + 1

\* f"R$ {valor_num:.2f}".replace('.', ','), valor_num in centavos.
FormatarValor(valor_num) ==
    "R$ " \o ToString(valor_num \div 100) \o "," \o DoisDigitos(valor_num % 100)

\* f"{consumo:.2f} kWh".replace('.', ','), consumo an integer of kWh.
FormatarConsumo(consumo) == ToString(consumo) \o ",00 kWh"

\* The row _criar_controle_mensal_sem_pandas builds for one relationship
\* entry.  Media_6_Meses, Diferenca_Percentual, Porcentagem_Consumo and
\* Percentual_Economia_FV are kept in hundredths, amounts in centavos.
RegistroInicial(relacionamento, mes, ano) ==
    [Casa_de_Oracao |-> relacionamento.Casa,
     Competencia |-> DoisDigitos(mes) \o "/" \o ToString(ano),
     Data_Emissao |-> "",
     Nota_Fiscal |-> "",
     Vencimento |-> DataVencimentoEsperada(relacionamento.Vencimento, mes, ano),
     Valor |-> "",
     Consumo_kWh |-> "",
     Media_6_Meses |-> 0,
     Diferenca_Percentual |-> 0,
     Porcentagem_Consumo |-> 10000,
     Alerta_Consumo |-> "Normal",
     Sistema_Fotovoltaico |-> "Nao",
     Compensacao_TUSD |-> 0,
     Compensacao_TE |-> 0,
     Total_Compensacao |-> 0,
     Valor_Integral_Sem_FV |-> 0,
     Percentual_Economia_FV |-> 0,
     Numero_Instalacao |-> relacionamento.Instalacao,
     Status |-> "Faltando"]

criar_controle_mensal_sem_pandas(relacionamentos, mes, ano) ==
    [i \in 1..Len(relacionamentos) |-> RegistroInicial(relacionamentos[i], mes, ano)]

\* carregar_planilha_relacionamento_sem_pandas.  `resposta` is what OneDrive
\* gives: "planilha" (the sheet, parsed into PlanilhaRelacionamento),
\* "exemplo" (no sheet: the example is created and uploaded) or "falha"
\* (no folder, no registros, failed upload, exception).
carregar_planilha_relacionamento_sem_pandas(relacionamentos, resposta) ==
    CASE resposta = "planilha" -> [retorno |-> TRUE, relacionamentos |-> PlanilhaRelacionamento]
      [] resposta = "exemplo" -> [retorno |-> TRUE, relacionamentos |-> RelacionamentoExemplo]
      [] resposta = "planilha_grupos" -> [retorno |-> TRUE, relacionamentos |-> PlanilhaComGrupos]
      [] resposta = "planilha_vencimentos" ->
           [retorno |-> TRUE, relacionamentos |-> PlanilhaVencimentos]
      [] resposta = "planilha_repetida" ->
           [retorno |-> TRUE, relacionamentos |-> PlanilhaRepetida]
      [] OTHER -> [retorno |-> FALSE, relacionamentos |-> relacionamentos]

\* carregar_planilha_controle_mensal(mes, ano): loads the relationship when
\* none is in memory, then always builds a new row set from it ("tentar
\* carregar existente" is not implemented).
carregar_planilha_controle_mensal_de(relacionamentos, controle, resposta, mes, ano) ==
    LET rel == IF relacionamentos = <<>>
               THEN carregar_planilha_relacionamento_sem_pandas(relacionamentos, resposta)
               ELSE [retorno |-> TRUE, relacionamentos |-> relacionamentos]
    IN  IF ~rel.retorno
        THEN [retorno |-> FALSE, relacionamentos |-> rel.relacionamentos, controle |-> controle]
        ELSE LET novo == criar_controle_mensal_sem_pandas(rel.relacionamentos, mes, ano)
             IN  [retorno |-> novo # <<>>, relacionamentos |-> rel.relacionamentos,
                  controle |-> novo]

\* carregar_planilha_controle_mensal(): mes = mes or self.mes_atual, ano = ano
\* or self.ano_atual.
carregar_planilha_controle_mensal(relacionamentos, controle, resposta) ==
    carregar_planilha_controle_mensal_de(relacionamentos, controle, resposta,
                                         MesAtual, AnoAtual)

\* Mutant of JaRecebida: the duplicate control never sees a received row.
JaRecebida_nunca(registro) == FALSE

\* status_atual == 'Recebida'
JaRecebida(registro) == registro.Status = "Recebida"

\* IndiceRegistro that takes the first row whatever the installation.
IndiceRegistro_primeiro(controle, numero_instalacao) == 1

\* IndiceRegistro that goes on to the next row of the installation when the
\* first one is already received.
IndiceRegistro_pendente(controle, numero_instalacao) ==
    LET iguais == {i \in 1..Len(controle) :
                     strip(controle[i].Numero_Instalacao) = numero_instalacao}
        pendentes == {i \in iguais : controle[i].Status # "Recebida"}
    IN  IF iguais = {} THEN 0
        ELSE IF pendentes = {} THEN CHOOSE i \in iguais : \A j \in iguais : i <= j
        ELSE CHOOSE i \in pendentes : \A j \in pendentes : i <= j

\* The loop with break: the first row whose stripped Numero_Instalacao equals
\* the number sought, 0 when there is none.
IndiceRegistro(controle, numero_instalacao) ==
    LET iguais == {i \in 1..Len(controle) :
                     strip(controle[i].Numero_Instalacao) = numero_instalacao}
    IN  IF iguais = {} THEN 0 ELSE CHOOSE i \in iguais : \A j \in iguais : i <= j

\* _calcular_medias_consumo_sem_pandas: the average is the current
\* consumption itself ("simplificado para validacao").
calcular_medias_consumo_sem_pandas(registro, consumo) ==
    LET media == consumo
    IN  IF media > 0
        THEN [registro EXCEPT
                !.Media_6_Meses = Round2(Frac(media, 1)),
                !.Diferenca_Percentual = Round2(Frac((consumo - media) * 100, media)),
                !.Porcentagem_Consumo = Round2(Frac(consumo * 100, media)),
                !.Alerta_Consumo = determinar_tipo_alerta_consumo(consumo, media).classificacao]
        ELSE [registro EXCEPT
                !.Media_6_Meses = Round2(Frac(media, 1)),
                !.Diferenca_Percentual = 0,
                !.Porcentagem_Consumo = 10000,
                !.Alerta_Consumo = "Normal"]

\* The fields processar_fatura_incremental_sem_pandas writes before the
\* averages.
RegistroPreenchido(registro, dados_fatura) ==
    LET valor_num == dados_fatura.valor_total_num
        basicos == [registro EXCEPT
            !.Valor = IF valor_num = NoneNum THEN "ERRO_EXTRACAO" ELSE FormatarValor(valor_num),
            !.Competencia = dados_fatura.competencia,
            !.Data_Emissao = dados_fatura.data_emissao,
            !.Nota_Fiscal = dados_fatura.nota_fiscal,
            !.Vencimento = dados_fatura.data_vencimento,
            !.Consumo_kWh = FormatarConsumo(dados_fatura.consumo_kwh_num),
            !.Sistema_Fotovoltaico = dados_fatura.sistema_fotovoltaico,
            !.Compensacao_TUSD = dados_fatura.compensacao_tusd_num,
            !.Compensacao_TE = dados_fatura.compensacao_te_num,
            !.Total_Compensacao = dados_fatura.total_compensacao]
        valor_integral == valor_num + dados_fatura.total_compensacao
    IN  IF valor_num = NoneNum THEN basicos
        ELSE IF valor_integral > 0
        THEN [basicos EXCEPT
                !.Valor_Integral_Sem_FV = valor_integral,
                !.Percentual_Economia_FV =
                    Round2(Frac(dados_fatura.total_compensacao * 100, valor_integral))]
        ELSE [basicos EXCEPT !.Valor_Integral_Sem_FV = valor_integral]

\* processar_fatura_incremental (-> processar_fatura_incremental_sem_pandas).
\* `aviso` is the line the refusal prints ("" when the record is accepted).
processar_fatura_incremental(controle, estatisticas, dados_fatura) ==
    IF controle = <<>>
    THEN [retorno |-> FALSE, controle |-> controle, estatisticas |-> estatisticas,
          aviso |-> "controle_nao_carregado"]
    ELSE
      LET numero_instalacao == strip(dados_fatura.numero_instalacao)
          indice_registro == IndiceRegistro(controle, numero_instalacao)
      IN  IF indice_registro = 0
          THEN [retorno |-> FALSE, controle |-> controle, estatisticas |-> estatisticas,
                aviso |-> "instalacao_nao_encontrada"]
          ELSE IF JaRecebida(controle[indice_registro])
          THEN [retorno |-> FALSE, controle |-> controle,
                estatisticas |-> [estatisticas EXCEPT
                    !.faturas_duplicadas = @ + 1,
                    !.instalacoes_reprocessadas = Append(@, numero_instalacao)],
                aviso |-> "duplicata_detectada"]
          ELSE LET preenchido == RegistroPreenchido(controle[indice_registro], dados_fatura)
                   calculado == calcular_medias_consumo_sem_pandas(
                                    preenchido, dados_fatura.consumo_kwh_num)
               IN  [retorno |-> TRUE,
                    controle |-> [controle EXCEPT
                        ![indice_registro] = [calculado EXCEPT !.Status = "Recebida"]],
                    estatisticas |-> estatisticas,
                    aviso |-> ""]

\* History: one more invoice accepted for the installation of the record
\* (counted up to 2).
ContarAceita(contagem, dados_fatura, aceita) ==
    LET instalacao == strip(dados_fatura.numero_instalacao)
    IN  IF aceita /\ instalacao \in DOMAIN contagem
        THEN [contagem EXCEPT ![instalacao] = IF @ < 2 THEN @ + 1 ELSE 2]
        ELSE contagem

\* obter_status_controle: planilha_controle_atual is never assigned.
obter_status_controle == "erro: Planilha controle nao carregada"

\* SistemaEnel.obter_status_controle_mensal: reloads the relationship and the
\* monthly control, then asks for the status.
obter_status_controle_mensal(relacionamentos, controle, token, resposta) ==
    IF ~token
    THEN [resultado |-> "erro: Token nao disponivel",
          relacionamentos |-> relacionamentos, controle |-> controle]
    ELSE
      LET rel == carregar_planilha_relacionamento_sem_pandas(relacionamentos, resposta)
      IN  IF ~rel.retorno
          THEN [resultado |-> "erro: Planilha de relacionamento nao disponivel",
                relacionamentos |-> rel.relacionamentos, controle |-> controle]
          ELSE
            LET ctl == carregar_planilha_controle_mensal(rel.relacionamentos, controle, resposta)
            IN  [resultado |-> IF ctl.retorno THEN obter_status_controle
                               ELSE "erro: Controle mensal nao disponivel",
                 relacionamentos |-> ctl.relacionamentos, controle |-> ctl.controle]

(***************************************************************************)
(* Specification of the ledger: PlanilhaManagerEnel and the status          *)
(* operations of SistemaEnel called directly, within one period             *)
(***************************************************************************)
MaxDuplicatas == 2  \* rejected duplicates counted by one PlanilhaManagerEnel

RespostasOneDrive == {"planilha", "exemplo", "falha"}

\* Records handed to processar_fatura_incremental: the four invoices, and the
\* first one with its installation number padded with blanks.
DadosFaturas ==
    {extrair_dados_fatura(pdf) : pdf \in {"pdfA", "pdfB", "pdfC", "pdfD"}}
        \cup {[extrair_dados_fatura("pdfA") EXCEPT !.numero_instalacao = " 111 "]}

InitPlanilha ==
    /\ InitPlanilhaParada
    /\ InitDatabaseParado
    /\ InitEmailParado
    /\ ult = SemChamada
    /\ InitPurosParados

\* PlanilhaManagerEnel.carregar_planilha_relacionamento_sem_pandas()
CarregarPlanilhaRelacionamento ==
    /\ \E resposta \in RespostasOneDrive :
         LET r == carregar_planilha_relacionamento_sem_pandas(relacionamentos_dados, resposta)
         IN  /\ relacionamentos_dados' = r.relacionamentos
             /\ ult' = [op |-> "carregar_planilha_relacionamento", retorno |-> r.retorno,
                        antes |-> controle_mensal_dados]
    /\ UNCHANGED <<controle_mensal_dados, estatisticas_duplicatas, varsDatabase, varsEmail, varsHistoria, varsPuros>>

\* PlanilhaManagerEnel.carregar_planilha_controle_mensal()
CarregarPlanilhaControleMensal ==
    /\ \E resposta \in RespostasOneDrive :
         LET r == carregar_planilha_controle_mensal(relacionamentos_dados,
                                                    controle_mensal_dados, resposta)
         IN  /\ relacionamentos_dados' = r.relacionamentos
             /\ controle_mensal_dados' = r.controle
             /\ ult' = [op |-> "carregar_planilha_controle_mensal", retorno |-> r.retorno,
                        antes |-> controle_mensal_dados]
    /\ UNCHANGED <<estatisticas_duplicatas, varsDatabase, varsEmail, varsHistoria, varsPuros>>

\* PlanilhaManagerEnel.processar_fatura_incremental(dados_fatura)
ProcessarFaturaIncremental ==
    /\ \E dados_fatura \in DadosFaturas :
         LET r == processar_fatura_incremental(controle_mensal_dados,
                                               estatisticas_duplicatas, dados_fatura)
         IN  /\ r.estatisticas.faturas_duplicadas <= MaxDuplicatas
             /\ controle_mensal_dados' = r.controle
             /\ estatisticas_duplicatas' = r.estatisticas
             /\ aceitas' = ContarAceita(aceitas, dados_fatura, r.retorno)
             /\ ult' = [op |-> "processar_fatura_incremental", retorno |-> r.retorno,
                        antes |-> controle_mensal_dados, dados |-> dados_fatura]
    /\ UNCHANGED <<relacionamentos_dados, baixados, vida, varsDatabase, varsEmail, varsPuros>>

\* SistemaEnel.obter_status_controle_mensal()
ObterStatusControleMensal ==
    /\ \E token \in BOOLEAN, resposta \in RespostasOneDrive :
         LET r == obter_status_controle_mensal(relacionamentos_dados,
                                               controle_mensal_dados, token, resposta)
         IN  /\ relacionamentos_dados' = r.relacionamentos
             /\ controle_mensal_dados' = r.controle
             /\ ult' = [op |-> "obter_status_controle_mensal", retorno |-> r.resultado,
                        antes |-> controle_mensal_dados]
    /\ UNCHANGED <<estatisticas_duplicatas, varsDatabase, varsEmail, varsHistoria, varsPuros>>

\* SistemaEnel.processar_alertas_consumo_alto(): the status it asks for always
\* carries "erro", so the sweep returns before looking at any row.
ProcessarAlertasConsumoAlto ==
    /\ \E token \in BOOLEAN, resposta \in RespostasOneDrive :
         LET r == obter_status_controle_mensal(relacionamentos_dados,
                                               controle_mensal_dados, token, resposta)
         IN  /\ relacionamentos_dados' = r.relacionamentos
             /\ controle_mensal_dados' = r.controle
             /\ ult' = [op |-> "processar_alertas_consumo_alto",
                        retorno |-> "erro: Erro obtendo planilha de controle",
                        antes |-> controle_mensal_dados]
    /\ UNCHANGED <<estatisticas_duplicatas, varsDatabase, varsEmail, varsHistoria, varsPuros>>

\* SistemaEnel.enviar_resumo_mensal_admin(): returns on the same "erro".
EnviarResumoMensalAdmin ==
    /\ \E token \in BOOLEAN, resposta \in RespostasOneDrive :
         LET r == obter_status_controle_mensal(relacionamentos_dados,
                                               controle_mensal_dados, token, resposta)
         IN  /\ relacionamentos_dados' = r.relacionamentos
             /\ controle_mensal_dados' = r.controle
             /\ ult' = [op |-> "enviar_resumo_mensal_admin",
                        retorno |-> "erro: Erro obtendo dados para resumo",
                        antes |-> controle_mensal_dados]
    /\ UNCHANGED <<estatisticas_duplicatas, varsDatabase, varsEmail, varsHistoria, varsPuros>>

NextPlanilha ==
    \/ CarregarPlanilhaRelacionamento
    \/ CarregarPlanilhaControleMensal
    \/ ProcessarFaturaIncremental
    \/ ObterStatusControleMensal
    \/ ProcessarAlertasConsumoAlto
    \/ EnviarResumoMensalAdmin

SpecPlanilha == InitPlanilha /\ [][NextPlanilha]_vars

(***************************************************************************)
(* C1  Idempotent acceptance                                               *)
(***************************************************************************)
\* Rows of a row set whose installation number is the one the record names.
LinhasDaInstalacao(controle, dados_fatura) ==
    {i \in 1..Len(controle) :
        strip(controle[i].Numero_Instalacao) = strip(dados_fatura.numero_instalacao)}

\* C1: a call of processar_fatura_incremental for an installation present in
\* the row set is accepted (returns True, the row becomes 'Recebida') when the
\* row was not yet received, and is rejected as a duplicate (returns False)
\* when the row was already received, leaving every field of every row as the
\* first acceptance wrote it, whatever amount, consumption or dates the second
\* record carries; so of two records with one installation id the first is
\* accepted and the second rejected.
C1_IdempotentAcceptance ==
    (ult.op = "processar_fatura_incremental"
        /\ LinhasDaInstalacao(ult.antes, ult.dados) # {}) =>
      LET linhas == LinhasDaInstalacao(ult.antes, ult.dados)
          i == CHOOSE k \in linhas : \A j \in linhas : k <= j
      IN  IF ult.antes[i].Status = "Recebida"
          THEN ~ult.retorno /\ controle_mensal_dados = ult.antes
          ELSE /\ ult.retorno
               /\ controle_mensal_dados[i].Status = "Recebida"
               /\ controle_mensal_dados[i].Nota_Fiscal = ult.dados.nota_fiscal
               /\ \A j \in 1..Len(ult.antes) :
                    j # i => controle_mensal_dados[j] = ult.antes[j]

\* Installation 111 holds the first invoice (R$ 126,37, 850 kWh) and the call
\* just made with the second one (other amount, consumption and dates) was
\* rejected and counted.
C1_Witness ==
    /\ ult.op = "processar_fatura_incremental"
    /\ ult.dados = extrair_dados_fatura("pdfB")
    /\ ~ult.retorno
    /\ controle_mensal_dados # <<>>
    /\ controle_mensal_dados[1].Status = "Recebida"
    /\ controle_mensal_dados[1].Valor = "R$ 126,37"
    /\ controle_mensal_dados[1].Consumo_kWh = "850,00 kWh"
    /\ estatisticas_duplicatas.faturas_duplicadas = 1

(***************************************************************************)
(* C2  No transition out of 'Recebida' within a period                     *)
(***************************************************************************)
OperacoesDoPeriodo ==
    {"processar_fatura_incremental", "carregar_planilha_controle_mensal",
     "carregar_planilha_relacionamento", "obter_status_controle_mensal",
     "processar_alertas_consumo_alto", "enviar_resumo_mensal_admin"}

\* C2: a row that has Status 'Recebida' keeps its status and its filled fields
\* through every operation of the period: further calls of
\* processar_fatura_incremental, carregar_planilha_controle_mensal,
\* obter_status_controle_mensal, the consumption-alert sweep and the monthly
\* summary.
C2_RecebidaPermanece ==
    ult.op \in OperacoesDoPeriodo =>
      \A i \in 1..Len(ult.antes) :
        ult.antes[i].Status = "Recebida" =>
          /\ i <= Len(controle_mensal_dados)
          /\ controle_mensal_dados[i] = ult.antes[i]

(***************************************************************************)
(* email_processor.py: the incremental batch and its duplicate guard       *)
(***************************************************************************)
\* The messages of the ENEL folder, as buscar_emails_enel returns them (all
\* have attachments), with the PDFs attached to each.
Email(id, subject, anexos) == [id |-> id, subject |-> subject, anexos |-> anexos]

CaixaEntrada ==
    { Email("msg1", "Fatura ENEL 111", <<"pdfA">>),
      Email("msg2", "Faturas ENEL 111 e 222", <<"pdfB", "pdfC">>) }

\* Mutant of JaProcessado: the guard never recognises a message.
JaProcessado_nunca(cache, email_id) == FALSE

\* if email_id and email_id in self.emails_processados_cache
JaProcessado(cache, email_id) == email_id # NoneTxt /\ email_id \in cache

\* baixar_anexos_email: the PDFs of the message; none when the message has no
\* id or the attachment request is not answered with HTTP 200.
baixar_anexos_email(email, download_ok) ==
    IF email.id = NoneTxt \/ ~download_ok THEN <<>> ELSE email.anexos

\* History: one more attachment request for the message (counted up to 2).
ContarDownload(contagem, email_id) ==
    IF email_id \in DOMAIN contagem
    THEN [contagem EXCEPT ![email_id] = IF @ < 2 THEN @ + 1 ELSE 2]
    ELSE contagem

\* renomear_pdf_pela_planilha_relacao looks the installation up under the
\* keys 'instalacao' and 'casa_oracao', which the registros (keys Casa,
\* Instalacao, Vencimento) do not have: no house is found, None is returned
\* and the record is left as extracted.
renomear_pdf_pela_planilha_relacao(dados_fatura, relacionamentos) == Nenhum

\* The PDFs the folders of the model hold, and what extrair_dados_fatura
\* gives for each of them.
PdfsDasCaixas == {"pdfA", "pdfB", "pdfC", "pdfD", "pdfCifrado", "pdfIlegivel"}

DadosDosPdfs == [pdf_content \in PdfsDasCaixas |-> extrair_dados_fatura(pdf_content)]

\* PDFProcessor.remover_protecao_pdf: False for the file whose protection
\* cannot be removed.
remover_protecao_pdf(pdf_content) == pdf_content # "pdfCifrado"

\* One line the run prints about a message or a PDF.
Aviso(de, aviso) == [de |-> de, aviso |-> aviso]

\* The lines printed while one extracted record goes through the loop body.
AvisosDoRegistro(L, pdf_content, dados_fatura, aviso_planilha) ==
    (IF dados_fatura.valor_total_num = NoneNum
     THEN <<Aviso(pdf_content, "valor_nao_extraido")>> ELSE <<>>)
    \o (IF Truthy(pdf_content) /\ HashDuplicado(L.faturas, md5(pdf_content))
        THEN <<Aviso(pdf_content, "fatura_duplicada_hash")>> ELSE <<>>)
    \o (IF aviso_planilha # "" THEN <<Aviso(pdf_content, aviso_planilha)>> ELSE <<>>)

\* planilha_chamada that leaves the ledger out when the store refused the
\* record.
planilha_chamada_se_salvo(database_salvo) == database_salvo

\* Whether planilha_manager.processar_fatura_incremental is called after
\* inserir_fatura answered database_salvo: the call stands after the
\* try/except of the store, under no condition on database_salvo.
planilha_chamada(database_salvo) == TRUE

\* The body of the loop over the PDFs of one message.  L is the state the
\* batch works on: the components it changes and its local counters.  A PDF
\* whose protection cannot be removed is counted in faturas_com_erro and
\* left; a PDF without extracted record is left uncounted.
ProcessarPdf(L, email_id, pdf_content, sucesso) ==
    IF ~remover_protecao_pdf(pdf_content)
    THEN [L EXCEPT !.faturas_com_erro = @ + 1,
                   !.avisos = Append(@, Aviso(pdf_content, "falha_descriptografia"))]
    ELSE IF DadosDosPdfs[pdf_content] = Nenhum
    THEN [L EXCEPT !.avisos = Append(@, Aviso(pdf_content, "falha_extracao"))]
    ELSE
    LET dados_fatura == DadosDosPdfs[pdf_content]
    IN  Unico({ Unico({
        [L EXCEPT
           !.faturas_com_erro = IF dados_fatura.valor_total_num = NoneNum THEN @ + 1 ELSE @,
           !.faturas = db.faturas,
           !.onedrive = db.onedrive,
           !.controle = pl.controle,
           !.estatisticas = pl.estatisticas,
           !.aceitas = ContarAceita(@, dados_fatura, pl.retorno),
           !.faturas_processadas = IF pl.retorno THEN @ + 1 ELSE @,
           !.faturas_atualizadas =
               IF pl.retorno
               THEN Append(@, [instalacao |-> dados_fatura.numero_instalacao,
                               arquivo |-> dados_fatura.arquivo,
                               database_salvo |-> db.retorno])
               ELSE @,
           !.avisos = @ \o AvisosDoRegistro(L, pdf_content, dados_fatura, pl.aviso)] :
        pl \in {IF planilha_chamada(db.retorno)
                THEN processar_fatura_incremental(L.controle, L.estatisticas, dados_fatura)
                ELSE [retorno |-> FALSE, controle |-> L.controle,
                      estatisticas |-> L.estatisticas, aviso |-> ""]} }) :
        db \in {inserir_fatura(L.faturas, L.onedrive, dados_fatura, email_id,
                               pdf_content, sucesso)} })

RECURSIVE ProcessarPdfs(_, _, _, _)
ProcessarPdfs(L, email_id, pdfs, sucesso) ==
    IF pdfs = <<>> THEN L
    ELSE ProcessarPdfs(ProcessarPdf(L, email_id, Head(pdfs), sucesso),
                       email_id, Tail(pdfs), sucesso)

\* The body of the loop over the messages: a message already in the cache is
\* counted and skipped; any other is put in the cache before its attachments
\* are requested.
ProcessarEmail(L, email, download_ok, sucesso) ==
    IF JaProcessado(L.cache, email.id)
    THEN [L EXCEPT !.emails_duplicados = @ + 1,
                   !.avisos = Append(@, Aviso(email.id, "email_ja_processado"))]
    ELSE
      LET marcado == [L EXCEPT
                        !.cache = IF email.id # NoneTxt THEN @ \cup {email.id} ELSE @,
                        !.baixados = IF email.id # NoneTxt
                                     THEN ContarDownload(@, email.id) ELSE @,
                        !.avisos = IF email.id # NoneTxt /\ ~download_ok
                                   THEN Append(@, Aviso(email.id, "erro_buscando_anexos"))
                                   ELSE @]
          pdfs_baixados == baixar_anexos_email(email, download_ok)
          processado == ProcessarPdfs(marcado, email.id, pdfs_baixados, sucesso)
      IN  [processado EXCEPT !.emails_processados = @ + 1]

RECURSIVE ProcessarEmails(_, _, _, _)
ProcessarEmails(L, emails, download_ok, sucesso) ==
    IF emails = <<>> THEN L
    ELSE ProcessarEmails(ProcessarEmail(L, Head(emails), download_ok, sucesso),
                         Tail(emails), download_ok, sucesso)

\* self.planilha_controle_atual: set to None by __init__ and assigned nowhere
\* else.
planilha_controle_atual == Nenhum

\* PlanilhaManagerEnel.salvar_controle_mensal(): False at once while
\* planilha_controle_atual is None; otherwise that sheet is uploaded and the
\* answer of the upload returned.  `enviado` is what reached OneDrive.
salvar_controle_mensal(sucesso) ==
    IF planilha_controle_atual = Nenhum
    THEN [retorno |-> FALSE, enviado |-> Nenhum]
    ELSE [retorno |-> sucesso,
          enviado |-> IF sucesso THEN planilha_controle_atual ELSE Nenhum]

\* EmailProcessor.processar_emails_incremental.  Without messages it returns
\* at once; otherwise it runs the loop, writes the number of skipped messages
\* into the ledger statistics, calls salvar_controle_mensal and reports.
processar_emails_incremental(L, emails, download_ok, sucesso) ==
    IF emails = <<>>
    THEN [L EXCEPT !.status = "sucesso: nenhum email"]
    ELSE
      LET salvar == salvar_controle_mensal(sucesso)
      IN  Unico({ [fim EXCEPT
                     !.estatisticas.emails_duplicados = fim.emails_duplicados,
                     !.planilha_salva = salvar.retorno,
                     !.upload_controle = salvar.enviado,
                     !.status = "sucesso"] :
                  fim \in {ProcessarEmails(L, emails, download_ok, sucesso)} })

\* The dict the run of the EmailProcessor returns: the report of a batch,
\* the short one when no message was found.
Relatorio(L) ==
    IF L.status = "sucesso"
    THEN [status |-> "sucesso",
          processamento |->
              [emails_processados |-> L.emails_processados,
               emails_duplicados_ignorados |-> L.emails_duplicados,
               faturas_processadas |-> L.faturas_processadas,
               faturas_com_erro_valor |-> L.faturas_com_erro],
          controle_mensal |-> obter_status_controle,
          faturas_atualizadas |-> L.faturas_atualizadas,
          planilha_salva |-> L.planilha_salva]
    ELSE IF L.status = "sucesso: nenhum email"
    THEN [status |-> "sucesso", emails_processados |-> 0, faturas_processadas |-> 0]
    ELSE [erro |-> L.status]

(***************************************************************************)
(* alertas: the notification built for one record                          *)
(***************************************************************************)
\* dados_fatura.get(campo, 0) for a number the record may not carry.
CampoOuZero(dados_fatura, campo) ==
    IF campo \in DOMAIN dados_fatura THEN dados_fatura[campo] ELSE 0

\* buscar_responsaveis_por_instalacao: the house of the first registro with
\* that installation, then the people the CCB base lists for the house
\* (`responsaveis_da_casa`); nobody when the installation is not found.
buscar_responsaveis_por_instalacao(numero_instalacao, relacionamentos, responsaveis_da_casa) ==
    IF \E k \in 1..Len(relacionamentos) :
           strip(relacionamentos[k].Instalacao) = strip(numero_instalacao)
    THEN responsaveis_da_casa
    ELSE <<>>

\* formatar_mensagem_alerta_enel: which template is used and which average
\* and deviation the text shows (NoneNum / Nenhum: the template has no such
\* line).  Formatting a missing total with :.2f raises: the fallback text.
formatar_mensagem_alerta_enel(dados_fatura, tipo_alerta) ==
    IF dados_fatura.valor_total_num = NoneNum
    THEN [template |-> "erro_formatacao", media_6_meses |-> NoneNum,
          diferenca_percentual |-> Nenhum]
    ELSE IF tipo_alerta \in {"consumo_critico", "consumo_alto",
                             "consumo_acima_media", "consumo_moderado"}
    THEN [template |-> tipo_alerta,
          media_6_meses |-> CampoOuZero(dados_fatura, "media_6_meses"),
          diferenca_percentual |->
              IF "diferenca_percentual" \in DOMAIN dados_fatura
              THEN dados_fatura.diferenca_percentual ELSE Frac(0, 1)]
    ELSE IF tipo_alerta = "fatura_pendente"
    THEN [template |-> "fatura_pendente", media_6_meses |-> NoneNum,
          diferenca_percentual |-> Nenhum]
    ELSE [template |-> "generico", media_6_meses |-> NoneNum,
          diferenca_percentual |-> Nenhum]

\* Step 4 of processar_alerta_fatura_enel: the tier comes from the classifier
\* when the record carries a consumption and an average above zero, otherwise
\* the pending-invoice template is used.
TipoAlertaDeterminado(dados_fatura) ==
    LET consumo == dados_fatura.consumo_kwh_num
        media == CampoOuZero(dados_fatura, "media_6_meses")
    IN  IF consumo > 0 /\ media > 0
        THEN determinar_tipo_alerta_consumo(consumo, media).tipo_alerta
        ELSE "fatura_pendente"

\* 50 * 1024 * 1024: the largest document enviar_telegram_com_anexo sends.
LimiteAnexoTelegram == 50 * 1024 * 1024

\* enviar_telegram with the answer of the service ignored.
enviar_telegram_nunca(token, resposta) ==
    [retorno |-> FALSE, requisicao |-> IF token THEN "sendMessage" ELSE "nenhuma"]

\* enviar_telegram(user_id, mensagem): no request without TELEGRAM_BOT_TOKEN;
\* otherwise one sendMessage request, and True only when the service answers
\* 200 with ok.  `resposta` is what the exchange gives: "sucesso", "falha"
\* (another status, or ok false), "erro" (requests raises: caught here).
enviar_telegram(token, resposta) ==
    IF ~token
    THEN [retorno |-> FALSE, requisicao |-> "nenhuma"]
    ELSE [retorno |-> resposta = "sucesso", requisicao |-> "sendMessage"]

\* enviar_telegram_com_anexo(user_id, mensagem, pdf_bytes, nome_arquivo): the
\* token, then the size ceiling, both answered False before any request;
\* otherwise one sendDocument request.
enviar_telegram_com_anexo(token, tamanho_pdf, resposta) ==
    IF ~token
    THEN [retorno |-> FALSE, requisicao |-> "nenhuma"]
    ELSE IF tamanho_pdf > LimiteAnexoTelegram
    THEN [retorno |-> FALSE, requisicao |-> "nenhuma"]
    ELSE [retorno |-> resposta = "sucesso", requisicao |-> "sendDocument"]

\* dados_fatura.get('arquivo_pdf', '')
arquivo_pdf(dados_fatura) ==
    IF "arquivo_pdf" \in DOMAIN dados_fatura THEN dados_fatura.arquivo_pdf ELSE ""

\* pdf_bytes with the outcome of the download ignored.
pdf_bytes_sempre(dados_fatura, onedrive_manager, baixar_pdf_fatura) == 1024

\* Step 3 of processar_alerta_fatura_enel: the size of pdf_bytes, 0 standing
\* for None or empty bytes.  The download is tried only with a manager and a
\* file name; `baixar_pdf_fatura` is what the manager gives ("bytes" with a
\* size, "nada" for None, "excecao" when it raises: caught, pdf_bytes stays
\* None).
pdf_bytes(dados_fatura, onedrive_manager, baixar_pdf_fatura) ==
    IF onedrive_manager /\ arquivo_pdf(dados_fatura) # ""
    THEN IF baixar_pdf_fatura.resultado = "bytes" THEN baixar_pdf_fatura.tamanho ELSE 0
    ELSE 0

\* The body of the send loop for one person: with pdf_bytes the document
\* send, otherwise the message send; nothing else is tried afterwards.
EnviarAoResponsavel(token, tamanho_pdf, resposta) ==
    IF tamanho_pdf > 0
    THEN enviar_telegram_com_anexo(token, tamanho_pdf, resposta)
             @@ [funcao |-> "enviar_telegram_com_anexo"]
    ELSE enviar_telegram(token, resposta) @@ [funcao |-> "enviar_telegram"]

\* What processar_alerta_fatura_enel returns before the send loop.
AlertaSemEnvio(erro) ==
    [sucesso |-> FALSE, erro |-> erro, tipo_alerta |-> "", mensagem |-> Nenhum,
     alertas_enviados |-> 0, alertas_falharam |-> 0, pdf_anexado |-> FALSE,
     detalhes |-> <<>>, chamadas |-> <<>>]

\* processar_alerta_fatura_enel(dados_fatura, relacionamentos_dados,
\* onedrive_manager): finds the people responsible, tries to fetch the PDF,
\* builds one message and sends it to each of them; envios[k] is what the
\* exchange with the messaging service gives for the k-th person.  `detalhes`
\* is the list of the result; `chamadas` records which sender was called for
\* each person and which request it made.
processar_alerta_fatura_enel(dados_fatura, relacionamentos, responsaveis_da_casa, onedrive_manager, baixar_pdf_fatura, token, envios) ==
    IF dados_fatura.numero_instalacao = ""
    THEN AlertaSemEnvio("Instalacao nao informada")
    ELSE
      LET responsaveis == buscar_responsaveis_por_instalacao(
                              dados_fatura.numero_instalacao, relacionamentos,
                              responsaveis_da_casa)
      IN  IF responsaveis = <<>>
          THEN AlertaSemEnvio("Responsaveis nao encontrados")
          ELSE
            LET tipo == TipoAlertaDeterminado(dados_fatura)
                tamanho == pdf_bytes(dados_fatura, onedrive_manager, baixar_pdf_fatura)
                envio == [k \in 1..Len(responsaveis) |->
                             EnviarAoResponsavel(token, tamanho, envios[k])]
                enviados == Cardinality({k \in 1..Len(responsaveis) : envio[k].retorno})
            IN  [sucesso |-> enviados > 0, erro |-> "", tipo_alerta |-> tipo,
                 mensagem |-> formatar_mensagem_alerta_enel(dados_fatura, tipo),
                 alertas_enviados |-> enviados,
                 alertas_falharam |-> Len(responsaveis) - enviados,
                 pdf_anexado |-> tamanho > 0,
                 detalhes |-> [k \in 1..Len(responsaveis) |->
                                  [responsavel |-> responsaveis[k],
                                   status |-> IF envio[k].retorno THEN "sucesso"
                                              ELSE "falha"]],
                 chamadas |-> [k \in 1..Len(responsaveis) |->
                                  [responsavel |-> responsaveis[k],
                                   funcao |-> envio[k].funcao,
                                   requisicao |-> envio[k].requisicao]]]

(***************************************************************************)
(* sistema_enel.py: the incremental run of SistemaEnel                     *)
(***************************************************************************)
\* The state a run works on, taken from the components, with the counters
\* of EmailProcessor.processar_emails_incremental at zero.
Lote(relacionamentos, controle, estatisticas, cache, faturas, onedrive, jaBaixados, jaAceitas) ==
    [relacionamentos |-> relacionamentos, controle |-> controle,
     estatisticas |-> estatisticas, cache |-> cache, faturas |-> faturas,
     onedrive |-> onedrive, baixados |-> jaBaixados, aceitas |-> jaAceitas,
     emails_processados |-> 0, faturas_processadas |-> 0, faturas_com_erro |-> 0,
     emails_duplicados |-> 0, faturas_atualizadas |-> <<>>,
     planilha_salva |-> FALSE, upload_controle |-> Nenhum, avisos |-> <<>>,
     alertas |-> <<>>, status |-> ""]

\* Step 5 of SistemaEnel.processar_emails_incremental: the records handed to
\* processar_alertas_faturas.  The step is entered when the report has status
\* "sucesso" and resultado.get("dados_extraidos", 0) > 0; the records are
\* resultado.get("faturas_processadas", []), a key only the short report has
\* (with the number 0).
FaturasParaAlertas(relatorio) ==
    IF /\ "status" \in DOMAIN relatorio
       /\ relatorio.status = "sucesso"
       /\ CampoOuZero(relatorio, "dados_extraidos") > 0
    THEN IF "faturas_processadas" \in DOMAIN relatorio /\ relatorio.faturas_processadas # 0
         THEN relatorio.faturas_processadas
         ELSE <<>>
    ELSE <<>>

\* SistemaEnel.processar_emails_incremental: token, OneDrive structure,
\* relationship sheet, monthly control (built anew), then the batch of the
\* EmailProcessor and the alert step; `alertas` lists the records
\* processar_alerta_fatura_enel was called for.
sistema_processar_emails_incremental(L, token, estrutura_ok, resposta, emails, download_ok, sucesso) ==
    IF ~token THEN [L EXCEPT !.status = "erro: Token nao disponivel"]
    ELSE IF ~estrutura_ok THEN [L EXCEPT !.status = "erro: Falha criando estrutura OneDrive"]
    ELSE
      LET rel == carregar_planilha_relacionamento_sem_pandas(L.relacionamentos, resposta)
      IN  IF ~rel.retorno
          THEN [L EXCEPT !.status = "erro: Falha carregando planilha de relacionamento"]
          ELSE
            LET ctl == carregar_planilha_controle_mensal(rel.relacionamentos,
                                                         L.controle, resposta)
                carregado == [L EXCEPT !.relacionamentos = ctl.relacionamentos,
                                       !.controle = ctl.controle]
            IN  IF ~ctl.retorno
                THEN [carregado EXCEPT !.status = "erro: Falha carregando controle mensal"]
                ELSE Unico({ [fim EXCEPT !.alertas = FaturasParaAlertas(Relatorio(fim))] :
                               fim \in {processar_emails_incremental(carregado, emails,
                                                                     download_ok, sucesso)} })

(***************************************************************************)
(* The history the record store gives for an installation                  *)
(***************************************************************************)
\* The two numbers a competencia text MM/YYYY is written with (0 for a text
\* that is not a competencia).
MesDaCompetencia(competencia) ==
    CASE competencia = "01/2025" -> 1
      [] competencia = "05/2025" -> 5
      [] competencia = "06/2025" -> 6
      [] competencia = "11/2024" -> 11
      [] competencia = "12/2024" -> 12
      [] OTHER -> 0

AnoDaCompetencia(competencia) ==
    CASE competencia \in {"01/2025", "05/2025", "06/2025"} -> 2025
      [] competencia \in {"11/2024", "12/2024"} -> 2024
      [] OTHER -> 0

\* Position of a competencia text in the order SQLite and str compare by:
\* character by character from the left, so the two digits of the month
\* decide before the year is looked at.
OrdemCompetencia(competencia) ==
    MesDaCompetencia(competencia) * 10000 + AnoDaCompetencia(competencia)

SemPosicao(seq, i) == [k \in 1..(Len(seq) - 1) |-> IF k < i THEN seq[k] ELSE seq[k + 1]]

\* ORDER BY competencia DESC; rows of the same competencia stay in the order
\* of insertion.
RECURSIVE OrdenarPorCompetenciaDesc(_)
OrdenarPorCompetenciaDesc(linhas) ==
    IF linhas = <<>> THEN <<>>
    ELSE LET i == CHOOSE i \in 1..Len(linhas) :
                    \A j \in 1..Len(linhas) :
                      \/ OrdemCompetencia(linhas[j].competencia)
                           < OrdemCompetencia(linhas[i].competencia)
                      \/ /\ OrdemCompetencia(linhas[j].competencia)
                              = OrdemCompetencia(linhas[i].competencia)
                         /\ i <= j
         IN  <<linhas[i]>> \o OrdenarPorCompetenciaDesc(SemPosicao(linhas, i))

DaInstalacao(faturas, numero_instalacao) ==
    {k \in 1..Len(faturas) : faturas[k].numero_instalacao = numero_instalacao}

RECURSIVE LinhasDe(_, _, _)
LinhasDe(faturas, posicoes, k) ==
    IF k > Len(faturas) THEN <<>>
    ELSE (IF k \in posicoes THEN <<faturas[k]>> ELSE <<>>) \o LinhasDe(faturas, posicoes, k + 1)

\* DatabaseEnel.buscar_por_instalacao
buscar_por_instalacao(faturas, numero_instalacao) ==
    OrdenarPorCompetenciaDesc(
        LinhasDe(faturas, DaInstalacao(faturas, numero_instalacao), 1))

\* The list obter_historico_instalacao_database builds from the rows and sorts
\* again by the text of mes_ano, reverse=True (a stable sort: rows of the same
\* mes_ano keep the order the query gave them).
historico_formatado(faturas, numero_instalacao) ==
    LET historico == OrdenarPorCompetenciaDesc(
                         buscar_por_instalacao(faturas, numero_instalacao))
    IN  [k \in 1..Len(historico) |->
            [mes_ano |-> historico[k].competencia,
             consumo |-> historico[k].consumo_kwh,
             tipo |-> "HISTORICO"]]

\* obter_historico_instalacao_database: the consumptions of the rows, most
\* recent competencia first.
obter_historico_instalacao_database(faturas, numero_instalacao) ==
    LET historico == buscar_por_instalacao(faturas, numero_instalacao)
    IN  [k \in 1..Len(historico) |-> historico[k].consumo_kwh]

(***************************************************************************)
(* Specification of the system: SistemaEnel over process lifetimes         *)
(***************************************************************************)
MaxLote == 2        \* messages buscar_emails_enel returns for one run
MaxReinicios == 1   \* process restarts

\* What buscar_emails_enel may return: up to MaxLote messages of the folder.
RECURSIVE SeqsDeEmails(_)
SeqsDeEmails(n) ==
    IF n = 0 THEN {<<>>}
    ELSE LET menores == SeqsDeEmails(n - 1)
         IN  menores \cup {Append(l, e) : l \in {m \in menores : Len(m) = n - 1},
                                         e \in CaixaEntrada}

Lotes == SeqsDeEmails(MaxLote)

\* What a run is given: whether the token is there, whether the OneDrive
\* structure could be ensured, what the relationship sheet download answers,
\* the messages found, whether the attachment requests are answered, and what
\* the backup upload answers.  A run that stops before the messages is given
\* none.
EntradaLote(token, estrutura_ok, resposta, emails, download_ok, sucesso) ==
    [token |-> token, estrutura_ok |-> estrutura_ok, resposta |-> resposta,
     emails |-> emails, download_ok |-> download_ok, sucesso |-> sucesso]

EntradasLote ==
    { EntradaLote(FALSE, TRUE, "planilha", <<>>, TRUE, TRUE),
      EntradaLote(TRUE, FALSE, "planilha", <<>>, TRUE, TRUE),
      EntradaLote(TRUE, TRUE, "falha", <<>>, TRUE, TRUE) }
    \cup { EntradaLote(TRUE, TRUE, "planilha", emails, download_ok, sucesso) :
             emails \in Lotes, download_ok \in BOOLEAN, sucesso \in BOOLEAN }

\* onedrive_manager.baixar_pdf_fatura answering None.
SemPdf == [resultado |-> "nada", tamanho |-> 0]

\* What an alert is given: the invoice, the people the CCB base lists for the
\* house, and what the send to each of them gives.
EntradaAlerta(pdf_content, responsaveis_da_casa, envios) ==
    [pdf_content |-> pdf_content, responsaveis_da_casa |-> responsaveis_da_casa,
     envios |-> envios]

EntradasAlerta ==
    { EntradaAlerta(pdf_content, <<>>, <<>>) : pdf_content \in {"pdfA", "pdfC"} }
    \cup { EntradaAlerta(pdf_content, <<"resp1", "resp2">>, envios) :
             pdf_content \in {"pdfA", "pdfC"},
             envios \in { <<"sucesso", "sucesso">>, <<"sucesso", "falha">>,
                          <<"erro", "falha">> } }

InitSistema ==
    /\ db_onedrive \in DatabasesIniciais
    /\ faturas_enel = baixar_database_onedrive(<<>>, db_onedrive, FALSE)
    /\ InitPlanilhaParada
    /\ InitEmailParado
    /\ ult = SemChamada
    /\ InitPurosParados

\* SistemaEnel.processar_emails_incremental(dias_atras)
ProcessarEmailsIncremental ==
    /\ \E e \in EntradasLote :
         \E r \in {sistema_processar_emails_incremental(
                        Lote(relacionamentos_dados, controle_mensal_dados,
                             estatisticas_duplicatas, emails_processados_cache,
                             faturas_enel, db_onedrive, baixados, aceitas),
                        e.token, e.estrutura_ok, e.resposta, e.emails,
                        e.download_ok, e.sucesso)} :
             /\ r.estatisticas.faturas_duplicadas <= MaxDuplicatas
             /\ relacionamentos_dados' = r.relacionamentos
             /\ controle_mensal_dados' = r.controle
             /\ estatisticas_duplicatas' = r.estatisticas
             /\ emails_processados_cache' = r.cache
             /\ faturas_enel' = r.faturas
             /\ db_onedrive' = r.onedrive
             /\ baixados' = r.baixados
             /\ aceitas' = r.aceitas
             /\ ult' = [op |-> "processar_emails_incremental", status |-> r.status,
                        emails |-> [k \in 1..Len(e.emails) |-> e.emails[k].id],
                        cache_antes |-> emails_processados_cache,
                        emails_processados |-> r.emails_processados,
                        emails_duplicados |-> r.emails_duplicados,
                        faturas_processadas |-> r.faturas_processadas,
                        faturas_com_erro |-> r.faturas_com_erro,
                        faturas_atualizadas |-> r.faturas_atualizadas]
    /\ UNCHANGED <<vida, varsPuros>>

\* The process ends and a new one starts: every component is built again on
\* first use.  The cache of message ids, the relationship, the monthly
\* control and its statistics start empty; the table is what
\* _baixar_database_onedrive finds.
ReiniciarProcesso ==
    /\ vida < MaxReinicios
    /\ vida' = vida + 1
    /\ emails_processados_cache' = {}
    /\ baixados' = [id \in IdsEmail |-> 0]
    /\ relacionamentos_dados' = <<>>
    /\ controle_mensal_dados' = <<>>
    /\ estatisticas_duplicatas' = EstatisticasIniciais
    /\ \E disco_mantido \in BOOLEAN :
         faturas_enel' = baixar_database_onedrive(faturas_enel, db_onedrive, disco_mantido)
    /\ ult' = [op |-> "reiniciar_processo"]
    /\ UNCHANGED <<db_onedrive, aceitas, varsPuros>>

\* processar_alerta_fatura_enel(dados_fatura, relacionamentos_dados) for the
\* record extracted from one of the invoices.
ProcessarAlertaFaturaEnel ==
    /\ \E e \in EntradasAlerta :
         \E dados_fatura \in {extrair_dados_fatura(e.pdf_content)} :
         \E r \in {processar_alerta_fatura_enel(dados_fatura, relacionamentos_dados,
                                                e.responsaveis_da_casa, TRUE,
                                                SemPdf, TRUE, e.envios)} :
             ult' = [op |-> "processar_alerta_fatura_enel", dados |-> dados_fatura,
                     sucesso |-> r.sucesso, erro |-> r.erro,
                     tipo_alerta |-> r.tipo_alerta, mensagem |-> r.mensagem,
                     alertas_enviados |-> r.alertas_enviados,
                     alertas_falharam |-> r.alertas_falharam]
    /\ UNCHANGED <<varsDatabase, varsPlanilha, varsEmail, varsHistoria, varsPuros>>

Next == ProcessarEmailsIncremental \/ ReiniciarProcesso \/ ProcessarAlertaFaturaEnel

Spec == InitSistema /\ [][Next]_vars

(***************************************************************************)
(* C6  Duplicate guard of the batch                                        *)
(***************************************************************************)
\* Occurrences in the batch of a message the process has already handled:
\* its id was in the cache when the batch began, or stands earlier in the
\* same batch.
OcorrenciasRepetidas(emails, cache_antes) ==
    {k \in 1..Len(emails) :
       \/ emails[k] \in cache_antes
       \/ \E j \in 1..(k - 1) : emails[j] = emails[k]}

\* C6: within one process lifetime, over any sequence of
\* processar_emails_incremental calls, the attachments of a message id are
\* requested at most once; every later occurrence of the id is skipped
\* without a request and counted as a duplicate email of its batch, in the
\* result and in the statistics of the ledger.
C6_DuplicateGuard ==
    /\ \A id \in IdsEmail : baixados[id] <= 1
    /\ \A id \in IdsEmail : (id \in emails_processados_cache) <=> (baixados[id] = 1)
    /\ (ult.op = "processar_emails_incremental" /\ ult.status = "sucesso") =>
         LET repetidas == OcorrenciasRepetidas(ult.emails, ult.cache_antes)
         IN  /\ ult.emails_duplicados = Cardinality(repetidas)
             /\ ult.emails_processados = Len(ult.emails) - Cardinality(repetidas)
             /\ estatisticas_duplicatas.emails_duplicados = ult.emails_duplicados
             /\ emails_processados_cache =
                    ult.cache_antes \cup {ult.emails[k] : k \in 1..Len(ult.emails)}

\* A batch of a later call brings msg1 again, together with the new msg2:
\* msg1 is counted as duplicate and not requested again, msg2 is handled.
C6_Witness ==
    /\ ult.op = "processar_emails_incremental"
    /\ ult.status = "sucesso"
    /\ ult.emails = <<"msg1", "msg2">>
    /\ ult.cache_antes = {"msg1"}
    /\ ult.emails_duplicados = 1
    /\ ult.emails_processados = 1
    /\ baixados["msg1"] = 1
    /\ baixados["msg2"] = 1

(***************************************************************************)
(* C3  Completion state across restarts                                    *)
(***************************************************************************)
\* C3: over incremental runs separated by process restarts, at most one
\* invoice is accepted for an installation in the period: a run of a process
\* started after a restart accepts no invoice for an installation that
\* already has an accepted one.
C3_UmaAceitaAposReinicio ==
    (ult.op = "processar_emails_incremental" /\ vida >= 1) =>
      \A k \in 1..Len(ult.faturas_atualizadas) :
        LET instalacao == strip(ult.faturas_atualizadas[k].instalacao)
        IN  instalacao \in Instalacoes => aceitas[instalacao] <= 1

(***************************************************************************)
(* C9  One calculation behind the ledger and the notification              *)
(***************************************************************************)
\* The history of the installation in the record store with the invoice of
\* file `arquivo` first and the other rows after it, most recent first.
HistoricoAtualPrimeiro(faturas, numero_instalacao, arquivo) ==
    LET linhas == buscar_por_instalacao(faturas, numero_instalacao)
        atual == {k \in 1..Len(linhas) : linhas[k].nome_arquivo_original = arquivo}
        primeiro == CHOOSE k \in atual : \A j \in atual : k <= j
        ordenadas == <<linhas[primeiro]>> \o SemPosicao(linhas, primeiro)
    IN  [k \in 1..Len(ordenadas) |-> ordenadas[k].consumo_kwh]

NaTabela(faturas, numero_instalacao, arquivo) ==
    \E k \in DaInstalacao(faturas, numero_instalacao) :
       faturas[k].nome_arquivo_original = arquivo

\* The rows of the ledger that hold the given record as received.
LinhasDoRegistro(dados_fatura) ==
    {i \in 1..Len(controle_mensal_dados) :
       /\ strip(controle_mensal_dados[i].Numero_Instalacao)
            = strip(dados_fatura.numero_instalacao)
       /\ controle_mensal_dados[i].Status = "Recebida"
       /\ controle_mensal_dados[i].Nota_Fiscal = dados_fatura.nota_fiscal}

\* C9: after a record is accepted, Media_6_Meses and Diferenca_Percentual of
\* its row are the average and the deviation calcular_media_e_diferenca_enel
\* returns for the installation's history in the record store (current
\* invoice first), and the notification built for the record shows the same
\* two values.
C9_UmaFonteDoDesvio ==
    /\ (ult.op = "processar_emails_incremental") =>
         \A k \in 1..Len(ult.faturas_atualizadas) :
           LET fa == ult.faturas_atualizadas[k]
               i == IndiceRegistro(controle_mensal_dados, strip(fa.instalacao))
           IN  NaTabela(faturas_enel, fa.instalacao, fa.arquivo) =>
                 LET calculo == calcular_media_e_diferenca_enel(
                         HistoricoAtualPrimeiro(faturas_enel, fa.instalacao, fa.arquivo))
                 IN  /\ controle_mensal_dados[i].Media_6_Meses
                          = Round2(calculo.media_6_meses)
                     /\ controle_mensal_dados[i].Diferenca_Percentual
                          = Round2(calculo.diferenca_percentual)
    /\ (ult.op = "processar_alerta_fatura_enel" /\ ult.mensagem # Nenhum) =>
         \A i \in LinhasDoRegistro(ult.dados) :
           /\ ult.mensagem.media_6_meses # NoneNum
           /\ ult.mensagem.diferenca_percentual # Nenhum
           /\ IF ult.mensagem.media_6_meses = NoneNum
                 \/ ult.mensagem.diferenca_percentual = Nenhum
              THEN FALSE
              ELSE /\ ult.mensagem.media_6_meses * 100
                        = controle_mensal_dados[i].Media_6_Meses
                   /\ Round2(ult.mensagem.diferenca_percentual)
                        = controle_mensal_dados[i].Diferenca_Percentual

(***************************************************************************)
(* C10  One tier in the ledger and in the message                          *)
(***************************************************************************)
\* The ledger name of the tier a message type stands for.  The template of
\* "fatura_pendente" tells the reader the consumption is within the usual
\* range; it is read here as the tier 'Normal'.
ClassificacaoDoTipo(tipo_alerta) ==
    CASE tipo_alerta = "consumo_critico" -> "Critico"
      [] tipo_alerta = "consumo_alto" -> "Alto"
      [] tipo_alerta = "consumo_acima_media" -> "Acima da Media"
      [] tipo_alerta = "consumo_moderado" -> "Moderado"
      [] tipo_alerta = "consumo_normal" -> "Normal"
      [] tipo_alerta = "fatura_pendente" -> "Normal"
      [] tipo_alerta = "sem_dados" -> "Sem Dados"
      [] tipo_alerta = "sem_historico" -> "Sem Historico"
      [] OTHER -> "Erro"

\* C10: for every record accepted into the ledger, the tier in the row's
\* Alerta_Consumo and the tier that selects the message template in
\* processar_alerta_fatura_enel for the same record are the same; no sent
\* message shows another tier than the ledger.
C10_MesmaFaixa ==
    (/\ ult.op = "processar_alerta_fatura_enel"
     /\ ult.mensagem # Nenhum
     /\ ult.alertas_enviados > 0) =>
      \A i \in LinhasDoRegistro(ult.dados) :
        ClassificacaoDoTipo(ult.tipo_alerta) = controle_mensal_dados[i].Alerta_Consumo

(***************************************************************************)
(* pdf_processor.py: conversion of the matched amount                      *)
(***************************************************************************)
\* A matched text is a sequence of characters; the patterns of valor_total
\* capture [\d.,]+, so the characters are digits, dots and commas.
NaoEncontrado == <<"N/A">>

Digitos == {"0", "1", "2", "3", "4", "5", "6", "7", "8", "9"}

EhDigito(c) == c \in Digitos

ValorDoDigito(c) ==
    CASE c = "0" -> 0 [] c = "1" -> 1 [] c = "2" -> 2 [] c = "3" -> 3 [] c = "4" -> 4
      [] c = "5" -> 5 [] c = "6" -> 6 [] c = "7" -> 7 [] c = "8" -> 8 [] OTHER -> 9

RECURSIVE Potencia10(_)
Potencia10(k) == IF k = 0 THEN 1 ELSE 10 * Potencia10(k - 1)

Contem(texto, c) == \E k \in 1..Len(texto) : texto[k] = c

\* str.replace(de, para) for single characters; para = "" removes them.
RECURSIVE replace(_, _, _)
replace(texto, de, para) ==
    IF texto = <<>> THEN <<>>
    ELSE (IF Head(texto) = de
          THEN (IF para = "" THEN <<>> ELSE <<para>>)
          ELSE <<Head(texto)>>) \o replace(Tail(texto), de, para)

\* len(valor_str.split('.')[-1]): the characters after the last dot.
TamanhoAposUltimoPonto(texto) ==
    LET pontos == {k \in 1..Len(texto) : texto[k] = "."}
        ultimo == CHOOSE k \in pontos : \A j \in pontos : j <= k
    IN  Len(texto) - ultimo

\* float(text) for a text of digits and dots: at most one dot and at least
\* one digit, otherwise ValueError (Nenhum).  The value is exact: the digits
\* read as an integer over ten to the number of digits after the dot.
RECURSIVE InteiroDe(_)
InteiroDe(digitos) ==
    IF digitos = <<>> THEN 0
    ELSE InteiroDe(SubSeq(digitos, 1, Len(digitos) - 1)) * 10
           + ValorDoDigito(digitos[Len(digitos)])

float(texto) ==
    LET pontos == {k \in 1..Len(texto) : texto[k] = "."}
        digitos == SelectSeq(texto, EhDigito)
    IN  IF Cardinality(pontos) > 1 \/ digitos = <<>>
           \/ \E k \in 1..Len(texto) : ~EhDigito(texto[k]) /\ texto[k] # "."
        THEN Nenhum
        ELSE IF pontos = {} THEN Frac(InteiroDe(digitos), 1)
        ELSE Frac(InteiroDe(digitos),
                  Potencia10(Len(texto) - (CHOOSE k \in pontos : TRUE)))

\* Mutant of DuasCasasAposPonto: a dot is never read as the decimal point.
DuasCasasAposPonto_nunca(texto) == FALSE

\* '.' in valor_str and len(valor_str.split('.')[-1]) == 2
DuasCasasAposPonto(texto) == Contem(texto, ".") /\ TamanhoAposUltimoPonto(texto) = 2

\* The choice of valor_limpo (lines 284-298).
valor_limpo(valor_str) ==
    IF Contem(valor_str, ",") THEN replace(replace(valor_str, ".", ""), ",", ".")
    ELSE IF DuasCasasAposPonto(valor_str) THEN valor_str
    ELSE IF Contem(valor_str, ".") THEN replace(valor_str, ".", "")
    ELSE valor_str

\* Mutant of converter_valor_total: a zero instead of the marker.
converter_valor_total_zero(valor_total) ==
    [valor_total_num |-> Frac(0, 1), erro_extracao_valor |-> ""]

\* Lines 278-310 of _extrair_campos_enel: valor_total_num and the flag
\* erro_extracao_valor ("" when the key is not set), from campos['valor_total'].
converter_valor_total(valor_total) ==
    IF valor_total # NaoEncontrado
    THEN LET numero == float(valor_limpo(valor_total))
         IN  IF numero # Nenhum
             THEN [valor_total_num |-> numero, erro_extracao_valor |-> ""]
             ELSE [valor_total_num |-> Nenhum, erro_extracao_valor |-> "Erro conversao"]
    ELSE [valor_total_num |-> Nenhum,
          erro_extracao_valor |-> "Valor total nao encontrado"]

(***************************************************************************)
(* Specification of the extraction: _extrair_campos_enel on matched texts  *)
(***************************************************************************)
MaxTexto == 4       \* characters of an enumerated matched text

Caracteres == {"0", "1", ".", ","}

RECURSIVE TextosAte(_)
TextosAte(n) ==
    IF n = 0 THEN {<<>>}
    ELSE LET menores == TextosAte(n - 1)
         IN  menores \cup {Append(t, c) : t \in {m \in menores : Len(m) = n - 1},
                                         c \in Caracteres}

\* The amounts the comments of the code name, with their values.
ExemplosDaRegra ==
    { [texto |-> <<"1", ".", "1", "2", "6", ",", "3", "7">>, valor |-> Frac(112637, 100)],
      [texto |-> <<"1", "2", "6", ",", "3", "7">>, valor |-> Frac(12637, 100)],
      [texto |-> <<"1", "2", "6", ".", "3", "7">>, valor |-> Frac(12637, 100)],
      [texto |-> <<"1", ".", "1", "2", "6">>, valor |-> Frac(1126, 1)],
      [texto |-> <<"1", "2", "6">>, valor |-> Frac(126, 1)] }

\* What the search for valor_total may leave in campos: "N/A" or a non-empty
\* text of digits, dots and commas.
TextosValorTotal ==
    {NaoEncontrado} \cup (TextosAte(MaxTexto) \ {<<>>}) \cup {e.texto : e \in ExemplosDaRegra}

\* The conversion of each of those texts.
ConversoesDosTextos ==
    [valor_total \in TextosValorTotal |-> converter_valor_total(valor_total)]

InitExtracao ==
    /\ InitSistemaParado
    /\ InitPurosParados

\* PDFProcessor._extrair_campos_enel for an invoice without photovoltaic
\* lines: the fields that depend on the amount.
ExtrairCamposEnel ==
    /\ \E valor_total \in TextosValorTotal :
       \E r \in {ConversoesDosTextos[valor_total]} :
         ult' = [op |-> "_extrair_campos_enel", valor_total |-> valor_total,
                 campos |-> [valor_total_num |-> r.valor_total_num,
                             erro_extracao_valor |-> r.erro_extracao_valor,
                             sistema_fotovoltaico |-> "Nao",
                             valor_integral_sem_fv |-> r.valor_total_num,
                             percentual_economia_fv |-> Frac(0, 1)]]
    /\ UNCHANGED <<varsDatabase, varsPlanilha, varsEmail, varsHistoria, varsPuros>>

NextExtracao == ExtrairCamposEnel

SpecExtracao == InitExtracao /\ [][NextExtracao]_vars

(***************************************************************************)
(* C13  The four-case rule of the amount                                   *)
(***************************************************************************)
DigitosApos(texto, posicao) ==
    Cardinality({k \in 1..Len(texto) : k > posicao /\ EhDigito(texto[k])})

\* The rule read off the text itself: which character is the decimal point,
\* how many digits stand after it, and the digits as one integer.  Nenhum
\* when the rule leaves two decimal points or no digit.
RegraQuatroCasos(texto) ==
    LET virgulas == {k \in 1..Len(texto) : texto[k] = ","}
        pontos == {k \in 1..Len(texto) : texto[k] = "."}
        inteiro == InteiroDe(SelectSeq(texto, EhDigito))
        semDigitos == \A k \in 1..Len(texto) : ~EhDigito(texto[k])
    IN  IF virgulas # {}
        THEN IF Cardinality(virgulas) > 1 \/ semDigitos THEN Nenhum
             ELSE Frac(inteiro, Potencia10(DigitosApos(texto, CHOOSE k \in virgulas : TRUE)))
        ELSE IF pontos # {} /\ (\E k \in pontos : k = Len(texto) - 2 /\ \A j \in pontos : j <= k)
        THEN IF Cardinality(pontos) > 1 THEN Nenhum ELSE Frac(inteiro, 100)
        ELSE IF semDigitos THEN Nenhum
        ELSE Frac(inteiro, 1)

MesmoNumero(a, b) ==
    IF a = Nenhum \/ b = Nenhum THEN a = Nenhum /\ b = Nenhum ELSE FracEq(a, b)

\* C13: for every matched text of digits, dots and commas the amount is the
\* one the four-case rule gives: with a comma the dots are dropped and the
\* comma is the decimal point; without comma a dot followed by exactly two
\* digits is the decimal point; any other dot separates thousands; otherwise
\* the text is an integer.
C13_FourCaseRule ==
    (ult.op = "_extrair_campos_enel" /\ ult.valor_total # NaoEncontrado) =>
      /\ MesmoNumero(ult.campos.valor_total_num, RegraQuatroCasos(ult.valor_total))
      /\ \A e \in ExemplosDaRegra :
           ult.valor_total = e.texto => MesmoNumero(ult.campos.valor_total_num, e.valor)

C13_Witness ==
    /\ ult.op = "_extrair_campos_enel"
    /\ ult.valor_total = <<"1", "2", "6", ".", "3", "7">>
    /\ ult.campos.valor_total_num = Frac(12637, 100)

(***************************************************************************)
(* C11  The unresolved amount is explicit                                  *)
(***************************************************************************)
\* A well-formed amount: digits at both ends, at most one comma with one or
\* two digits after it, every thousands dot followed by exactly three
\* digits; without comma, alternatively one dot followed by two digits.
GruposDeMilhar(texto, fim) ==
    \A k \in 1..fim : texto[k] = "." =>
       /\ k > 1 /\ k + 3 <= fim
       /\ \A j \in (k + 1)..(k + 3) : EhDigito(texto[j])
       /\ (k + 4 <= fim => texto[k + 4] = ".")

BemFormado(texto) ==
    LET n == Len(texto)
        virgulas == {k \in 1..n : texto[k] = ","}
    IN  /\ n >= 1 /\ EhDigito(texto[1]) /\ EhDigito(texto[n])
        /\ IF virgulas # {}
           THEN /\ Cardinality(virgulas) = 1
                /\ LET v == CHOOSE k \in virgulas : TRUE
                   IN  /\ n - v \in {1, 2}
                       /\ \A j \in (v + 1)..n : EhDigito(texto[j])
                       /\ GruposDeMilhar(texto, v - 1)
           ELSE \/ GruposDeMilhar(texto, n)
                \/ /\ n >= 4 /\ texto[n - 2] = "."
                   /\ \A j \in 1..n : j # n - 2 => EhDigito(texto[j])

\* C11: when no pattern matched, or the matched text cannot be converted,
\* valor_total_num is the marker None and erro_extracao_valor is set, never
\* a zero or another number; a well-formed matched amount never gives the
\* marker.
C11_UnresolvedExplicit ==
    ult.op = "_extrair_campos_enel" =>
      /\ (ult.valor_total = NaoEncontrado \/ RegraQuatroCasos(ult.valor_total) = Nenhum) =>
           /\ ult.campos.valor_total_num = Nenhum
           /\ ult.campos.erro_extracao_valor # ""
      /\ (ult.valor_total # NaoEncontrado /\ BemFormado(ult.valor_total)) =>
           /\ ult.campos.valor_total_num # Nenhum
           /\ ult.campos.erro_extracao_valor = ""
      /\ (ult.campos.valor_total_num = Nenhum) <=> (ult.campos.erro_extracao_valor # "")

\* A text was matched ("R$ ," gives ",") that is no number.
C11_Witness ==
    /\ ult.op = "_extrair_campos_enel"
    /\ ult.valor_total = <<",">>
    /\ ult.campos.valor_total_num = Nenhum
    /\ ult.campos.erro_extracao_valor = "Erro conversao"

(***************************************************************************)
(* planilha_manager.py: the export and its totals                          *)
(***************************************************************************)
\* valor.startswith('R$') for the texts a Valor cell can hold.
ComecaComRS(valor) == valor \notin {"", "ERRO_EXTRACAO"}

\* Amounts (centavos) whose text may stand in a Valor cell.
ValoresDasFaturas ==
    {extrair_dados_fatura(pdf).valor_total_num : pdf \in {"pdfA", "pdfB", "pdfC", "pdfD"}}
        \ {NoneNum}

\* Mutant of ValorDoTexto: every cell reads as zero.
ValorDoTexto_zero(valor) == 0

\* float(valor.replace('R$ ', '').replace(',', '.')): the amount whose text is
\* the cell (NoneNum: ValueError).
ValorDoTexto(valor) ==
    IF \E c \in ValoresDasFaturas : FormatarValor(c) = valor
    THEN CHOOSE c \in ValoresDasFaturas : FormatarValor(c) = valor
    ELSE NoneNum

\* 'PIA' in casa.upper() for the houses of the model.
EhPia(casa) == casa \in {"PIA CO-03"}

RECURSIVE Grupo(_, _)
Grupo(controle, pia) ==
    IF controle = <<>> THEN <<>>
    ELSE (IF EhPia(Head(controle).Casa_de_Oracao) = pia THEN <<Head(controle)>> ELSE <<>>)
           \o Grupo(Tail(controle), pia)

\* escrever_grupo: the subtotal of the rows of one group; a cell that does
\* not start with R$ or does not parse is passed over.
RECURSIVE subtotal_valor(_)
subtotal_valor(dados_grupo) ==
    IF dados_grupo = <<>> THEN 0
    ELSE LET valor == Head(dados_grupo).Valor
             valor_num == IF ComecaComRS(valor) THEN ValorDoTexto(valor) ELSE NoneNum
         IN  (IF valor_num # NoneNum THEN valor_num ELSE 0)
               + subtotal_valor(Tail(dados_grupo))

\* gerar_planilha_excel_sem_pandas: what is returned, the two subtotals and
\* the grand total computed, and whether each is written (only when above
\* zero).  `upload` is what the OneDrive upload gives: "ok", "falha", or
\* "sem_onedrive" (the file is only built).
gerar_planilha_excel_sem_pandas(controle, excel_available, upload) ==
    LET falha == [retorno |-> FALSE, gerada |-> FALSE, subtotal_pia |-> 0,
                  subtotal_outros |-> 0, total_geral |-> 0, escreve_pia |-> FALSE,
                  escreve_outros |-> FALSE, escreve_total |-> FALSE]
    IN  IF ~excel_available \/ controle = <<>> THEN falha
        ELSE
          LET dados_pia == Grupo(controle, TRUE)
              dados_outros == Grupo(controle, FALSE)
              pia == subtotal_valor(dados_pia)
              outros == subtotal_valor(dados_outros)
              com_rs == SelectSeq(controle, LAMBDA reg : ComecaComRS(reg.Valor))
              valores == [k \in 1..Len(com_rs) |-> ValorDoTexto(com_rs[k].Valor)]
          IN  IF \E k \in 1..Len(valores) : valores[k] = NoneNum THEN falha
              ELSE [retorno |-> upload # "falha", gerada |-> TRUE,
                    subtotal_pia |-> pia, subtotal_outros |-> outros,
                    total_geral |-> SomaSeq(valores),
                    escreve_pia |-> dados_pia # <<>> /\ pia > 0,
                    escreve_outros |-> dados_outros # <<>> /\ outros > 0,
                    escreve_total |-> SomaSeq(valores) > 0]

(***************************************************************************)
(* Specification of the export: acceptances, then the workbook             *)
(***************************************************************************)
\* PlanilhaManagerEnel.carregar_planilha_controle_mensal() when OneDrive
\* holds the sheet with the two groups.
CarregarControleComGrupos ==
    /\ \E resposta \in {"planilha_grupos", "falha"} :
       \E r \in {carregar_planilha_controle_mensal(relacionamentos_dados,
                                                    controle_mensal_dados, resposta)} :
         /\ relacionamentos_dados' = r.relacionamentos
         /\ controle_mensal_dados' = r.controle
         /\ ult' = [op |-> "carregar_planilha_controle_mensal", retorno |-> r.retorno,
                    antes |-> controle_mensal_dados]
    /\ UNCHANGED <<estatisticas_duplicatas, varsDatabase, varsEmail, varsHistoria, varsPuros>>

\* PlanilhaManagerEnel.gerar_planilha_excel_sem_pandas()
GerarPlanilhaExcel ==
    /\ \E excel_available \in BOOLEAN, upload \in {"ok", "falha", "sem_onedrive"} :
       \E r \in {gerar_planilha_excel_sem_pandas(controle_mensal_dados,
                                                  excel_available, upload)} :
         ult' = [op |-> "gerar_planilha_excel_sem_pandas", retorno |-> r.retorno,
                 gerada |-> r.gerada, subtotal_pia |-> r.subtotal_pia,
                 subtotal_outros |-> r.subtotal_outros, total_geral |-> r.total_geral,
                 escreve_pia |-> r.escreve_pia, escreve_outros |-> r.escreve_outros,
                 escreve_total |-> r.escreve_total]
    /\ UNCHANGED <<varsDatabase, varsPlanilha, varsEmail, varsHistoria, varsPuros>>

NextExportacao == CarregarControleComGrupos \/ ProcessarFaturaIncremental \/ GerarPlanilhaExcel

SpecExportacao == InitPlanilha /\ [][NextExportacao]_vars

(***************************************************************************)
(* C12  Totals leave out the rows without amount                           *)
(***************************************************************************)
\* The amount a received row was accepted with, read from its numeric
\* fields: the full value less the compensation.
ValorAceito(registro) == registro.Valor_Integral_Sem_FV - registro.Total_Compensacao

\* Sum of the accepted amounts of the received rows with a resolved amount
\* among the rows at the given positions.
RECURSIVE SomaResolvidos(_, _)
SomaResolvidos(controle, posicoes) ==
    IF posicoes = {} THEN 0
    ELSE LET i == CHOOSE k \in posicoes : TRUE
         IN  (IF controle[i].Status = "Recebida" /\ controle[i].Valor # "ERRO_EXTRACAO"
              THEN ValorAceito(controle[i]) ELSE 0)
               + SomaResolvidos(controle, posicoes \ {i})

PosicoesDoGrupo(controle, pia) ==
    {i \in 1..Len(controle) : EhPia(controle[i].Casa_de_Oracao) = pia}

\* C12: a received row whose record had no amount shows 'ERRO_EXTRACAO' in
\* Valor, never a number; the subtotals of the groups and the grand total
\* of the export are the sums of the amounts of exactly the rows with a
\* resolved amount, and the grand total is the sum of the subtotals.
C12_TotalsExcludeUnresolved ==
    /\ (ult.op = "processar_fatura_incremental" /\ ult.retorno) =>
         \A i \in LinhasDoRegistro(ult.dados) :
           IF ult.dados.valor_total_num = NoneNum
           THEN controle_mensal_dados[i].Valor = "ERRO_EXTRACAO"
           ELSE /\ controle_mensal_dados[i].Valor = FormatarValor(ult.dados.valor_total_num)
                /\ ValorAceito(controle_mensal_dados[i]) = ult.dados.valor_total_num
    /\ (ult.op = "gerar_planilha_excel_sem_pandas" /\ ult.gerada) =>
         /\ ult.subtotal_pia =
              SomaResolvidos(controle_mensal_dados, PosicoesDoGrupo(controle_mensal_dados, TRUE))
         /\ ult.subtotal_outros =
              SomaResolvidos(controle_mensal_dados, PosicoesDoGrupo(controle_mensal_dados, FALSE))
         /\ ult.total_geral =
              SomaResolvidos(controle_mensal_dados, 1..Len(controle_mensal_dados))
         /\ ult.total_geral = ult.subtotal_pia + ult.subtotal_outros

\* The three installations are received, the one of the second row without
\* amount: the subtotals are those of the first and the third row.
C12_Witness ==
    /\ ult.op = "gerar_planilha_excel_sem_pandas"
    /\ ult.gerada
    /\ Len(controle_mensal_dados) = 3
    /\ \A i \in 1..3 : controle_mensal_dados[i].Status = "Recebida"
    /\ controle_mensal_dados[2].Valor = "ERRO_EXTRACAO"
    /\ ult.subtotal_pia = 12637
    /\ ult.subtotal_outros = 5000
    /\ ult.total_geral = 17637
    /\ ult.escreve_pia /\ ult.escreve_outros /\ ult.escreve_total


(***************************************************************************)
(* Specification of the alerts: processar_alerta_fatura_enel called with   *)
(* records that name their PDF                                             *)
(***************************************************************************)
MaxResponsaveis == 3   \* people the CCB base lists for one house

\* The k-th person the base lists.
Responsavel(k) == "resp" \o ToString(k)

\* What onedrive_manager.baixar_pdf_fatura gives: an exception, None, empty
\* bytes, a small file, a file of exactly the ceiling, one byte more.
RespostasBaixarPdf ==
    { [resultado |-> "excecao", tamanho |-> 0], SemPdf }
    \cup { [resultado |-> "bytes", tamanho |-> t] :
             t \in {0, 1024, LimiteAnexoTelegram, LimiteAnexoTelegram + 1} }

\* What the exchange with the messaging service gives for one person.
RespostasTelegram == {"sucesso", "falha", "erro"}

\* The record handed to the alert: the extracted invoice of installation
\* 111 with the name of its PDF ('' when it has none).
DadosAlerta(nome) == extrair_dados_fatura("pdfA") @@ [arquivo_pdf |-> nome]

InitAlertas ==
    /\ InitPlanilhaParada
    /\ InitDatabaseParado
    /\ InitEmailParado
    /\ ult = SemChamada
    /\ InitPurosParados

\* PlanilhaManagerEnel.carregar_planilha_relacionamento_sem_pandas(): the
\* relationship the alerts are given, found on OneDrive or left as it was.
CarregarRelacionamentoDosAlertas ==
    /\ \E resposta \in {"planilha", "falha"} :
         \E r \in {carregar_planilha_relacionamento_sem_pandas(relacionamentos_dados, resposta)} :
             /\ relacionamentos_dados' = r.relacionamentos
             /\ ult' = [op |-> "carregar_planilha_relacionamento", retorno |-> r.retorno]
    /\ UNCHANGED <<controle_mensal_dados, estatisticas_duplicatas, varsDatabase, varsEmail, varsHistoria, varsPuros>>

\* What the exchanges with n people give.  Without TELEGRAM_BOT_TOKEN no
\* exchange takes place: one list stands for all of them.
EnviosPossiveis(token, n) ==
    IF token THEN [1..n -> RespostasTelegram] ELSE {[k \in 1..n |-> "sucesso"]}

\* What surrounds one alert: no manager given; a manager and a record that
\* names no PDF; a manager, a named PDF and each answer of the download.
AmbientesAlerta ==
    { [arquivo_pdf |-> "fatura.pdf", onedrive_manager |-> FALSE, baixar_pdf_fatura |-> SemPdf],
      [arquivo_pdf |-> "", onedrive_manager |-> TRUE, baixar_pdf_fatura |-> SemPdf] }
    \cup { [arquivo_pdf |-> "fatura.pdf", onedrive_manager |-> TRUE, baixar_pdf_fatura |-> b] :
             b \in RespostasBaixarPdf }

\* processar_alerta_fatura_enel(dados_fatura, relacionamentos_dados,
\* onedrive_manager)
ProcessarAlertaComAnexo ==
    /\ \E a \in AmbientesAlerta, n \in 0..MaxResponsaveis :
         \E token \in BOOLEAN :
         \E envios \in EnviosPossiveis(token, n) :
         \E dados_fatura \in {DadosAlerta(a.arquivo_pdf)} :
         \E r \in {processar_alerta_fatura_enel(
                       dados_fatura, relacionamentos_dados,
                       [k \in 1..n |-> Responsavel(k)], a.onedrive_manager,
                       a.baixar_pdf_fatura, token, envios)} :
             ult' = [op |-> "processar_alerta_com_anexo",
                     arquivo_pdf |-> arquivo_pdf(dados_fatura),
                     onedrive_manager |-> a.onedrive_manager,
                     baixar_pdf_fatura |-> a.baixar_pdf_fatura,
                     token |-> token, envios |-> envios,
                     responsaveis |-> IF r.erro = "" THEN n ELSE 0,
                     sucesso |-> r.sucesso, erro |-> r.erro,
                     alertas_enviados |-> r.alertas_enviados,
                     alertas_falharam |-> r.alertas_falharam,
                     pdf_anexado |-> r.pdf_anexado,
                     detalhes |-> r.detalhes, chamadas |-> r.chamadas]
    /\ UNCHANGED <<varsDatabase, varsPlanilha, varsEmail, varsHistoria, varsPuros>>

NextAlertas == CarregarRelacionamentoDosAlertas \/ ProcessarAlertaComAnexo

SpecAlertas == InitAlertas /\ [][NextAlertas]_vars

\* The last call was an alert that reached the send loop.
AlertaEnviado ==
    /\ ult.op = "processar_alerta_com_anexo"
    /\ ult.erro = ""

(***************************************************************************)
(* C14  Failure isolation of the send loop                                 *)
(***************************************************************************)
\* The exchange with the k-th person went through: a request was made and
\* the service accepted it.
EntregaBemSucedida(k) ==
    /\ ult.chamadas[k].requisicao # "nenhuma"
    /\ ult.envios[k] = "sucesso"

\* C14: whatever subset of the people have a failing or raising delivery,
\* a sender is called for every person found, every person whose own
\* delivery succeeds is reported with status "sucesso", and the report holds
\* exactly one entry per person, in order.
C14_FailureIsolation ==
    AlertaEnviado =>
        /\ Len(ult.detalhes) = ult.responsaveis
        /\ Len(ult.chamadas) = ult.responsaveis
        /\ \A k \in 1..ult.responsaveis :
             /\ ult.detalhes[k].responsavel = Responsavel(k)
             /\ ult.chamadas[k].responsavel = Responsavel(k)
             /\ ult.chamadas[k].funcao \in {"enviar_telegram", "enviar_telegram_com_anexo"}
             /\ EntregaBemSucedida(k) => ult.detalhes[k].status = "sucesso"
        /\ ult.alertas_enviados + ult.alertas_falharam = ult.responsaveis

\* Three people, the second one's delivery raises, the first and the third
\* are reported as sent.
C14_Witness ==
    /\ AlertaEnviado
    /\ ult.responsaveis = 3
    /\ ult.envios = <<"sucesso", "erro", "sucesso">>
    /\ ult.detalhes[1].status = "sucesso"
    /\ ult.detalhes[2].status = "falha"
    /\ ult.detalhes[3].status = "sucesso"

(***************************************************************************)
(* C15  The attachment is best effort                                      *)
(***************************************************************************)
\* The download of the PDF was tried and gave no bytes.
DownloadSemBytes ==
    /\ ult.onedrive_manager
    /\ ult.arquivo_pdf # ""
    /\ \/ ult.baixar_pdf_fatura.resultado \in {"excecao", "nada"}
       \/ ult.baixar_pdf_fatura.tamanho = 0

\* C15: when the download of the PDF raises or gives nothing the alert still
\* reaches the send loop, every person is sent the message alone and is
\* reported as sent when that exchange succeeds; the document sender is
\* called only when the download gave bytes.
C15_BestEffortAttachment ==
    /\ (ult.op = "processar_alerta_com_anexo" /\ DownloadSemBytes
           /\ ult.erro # "Responsaveis nao encontrados")
        => /\ ult.erro = ""
           /\ ~ult.pdf_anexado
           /\ \A k \in 1..ult.responsaveis :
                /\ ult.chamadas[k].funcao = "enviar_telegram"
                /\ ult.token => ult.chamadas[k].requisicao = "sendMessage"
                /\ (ult.token /\ ult.envios[k] = "sucesso")
                       <=> ult.detalhes[k].status = "sucesso"
           /\ ult.sucesso <=> (ult.token /\ \E k \in 1..ult.responsaveis :
                                                ult.envios[k] = "sucesso")
    /\ AlertaEnviado =>
         \A k \in 1..ult.responsaveis :
            ult.chamadas[k].funcao = "enviar_telegram_com_anexo"
               => /\ ult.onedrive_manager
                  /\ ult.arquivo_pdf # ""
                  /\ ult.baixar_pdf_fatura.resultado = "bytes"
                  /\ ult.baixar_pdf_fatura.tamanho > 0

\* The download raised, two people, both received the message alone.
C15_Witness ==
    /\ AlertaEnviado
    /\ DownloadSemBytes
    /\ ult.baixar_pdf_fatura.resultado = "excecao"
    /\ ult.responsaveis = 2
    /\ ult.sucesso
    /\ ult.alertas_enviados = 2
    /\ \A k \in 1..2 : ult.chamadas[k].requisicao = "sendMessage"

(***************************************************************************)
(* C16  PDF above the size ceiling                                         *)
(***************************************************************************)
\* The PDF fetched for the alert is larger than the ceiling.
PdfAcimaDoLimite ==
    /\ AlertaEnviado
    /\ ult.pdf_anexado
    /\ ult.baixar_pdf_fatura.tamanho > LimiteAnexoTelegram

\* C16: with a PDF above 50 MB no document request is made to the messaging
\* service, and every person whose exchange the service would accept still
\* receives the message through the text-only request.
C16_OversizedFallsBackToText ==
    PdfAcimaDoLimite =>
        \A k \in 1..ult.responsaveis :
           /\ ult.chamadas[k].requisicao # "sendDocument"
           /\ (ult.token /\ ult.envios[k] = "sucesso")
                  => /\ ult.chamadas[k].requisicao = "sendMessage"
                     /\ ult.detalhes[k].status = "sucesso"

\* The part of C16 the senders keep: above the ceiling no request at all is
\* made for the document.
C16_RejectedBeforeRequest ==
    PdfAcimaDoLimite =>
        \A k \in 1..ult.responsaveis :
           /\ ult.chamadas[k].funcao = "enviar_telegram_com_anexo"
           /\ ult.chamadas[k].requisicao = "nenhuma"


(***************************************************************************)
(* Specification of the batch: runs of SistemaEnel over a folder whose     *)
(* messages carry every kind of PDF                                        *)
(***************************************************************************)
\* Two messages: one with the invoice of an installation the relationship
\* sheet does not have followed by an invoice of installation 111; one with
\* a PDF whose protection cannot be removed, a PDF without readable text, the
\* invoice of installation 222 without total and the first invoice again.
CaixaVariada ==
    { Email("msg1", "Fatura ENEL", <<"pdfD", "pdfA">>),
      Email("msg2", "Fatura ENEL", <<"pdfCifrado", "pdfIlegivel", "pdfC", "pdfA">>) }

\* Up to n messages of a folder, in any order, repetitions included.
RECURSIVE SeqsDaCaixa(_, _)
SeqsDaCaixa(caixa, n) ==
    IF n = 0 THEN {<<>>}
    ELSE LET menores == SeqsDaCaixa(caixa, n - 1)
         IN  menores \cup {Append(l, e) : l \in {m \in menores : Len(m) = n - 1},
                                         e \in caixa}

\* What a run over that folder is given.
EntradasLoteVariado ==
    { EntradaLote(FALSE, TRUE, "planilha", <<>>, TRUE, TRUE),
      EntradaLote(TRUE, FALSE, "planilha", <<>>, TRUE, TRUE),
      EntradaLote(TRUE, TRUE, "falha", <<>>, TRUE, TRUE) }
    \cup { EntradaLote(TRUE, TRUE, "planilha", emails, download_ok, sucesso) :
             emails \in SeqsDaCaixa(CaixaVariada, MaxLote),
             download_ok \in BOOLEAN, sucesso \in BOOLEAN }

\* The run an entrada asks for, on the state the components are in.
ExecutarLote(e) ==
    sistema_processar_emails_incremental(
        Lote(relacionamentos_dados, controle_mensal_dados, estatisticas_duplicatas,
             emails_processados_cache, faturas_enel, db_onedrive, baixados, aceitas),
        e.token, e.estrutura_ok, e.resposta, e.emails, e.download_ok, e.sucesso)

\* SistemaEnel.processar_emails_incremental(dias_atras) over the folder
ProcessarLoteVariado ==
    /\ \E e \in EntradasLoteVariado :
         \E r \in {ExecutarLote(e)} :
             /\ r.estatisticas.faturas_duplicadas <= MaxDuplicatas
             /\ relacionamentos_dados' = r.relacionamentos
             /\ controle_mensal_dados' = r.controle
             /\ estatisticas_duplicatas' = r.estatisticas
             /\ emails_processados_cache' = r.cache
             /\ faturas_enel' = r.faturas
             /\ db_onedrive' = r.onedrive
             /\ baixados' = r.baixados
             /\ aceitas' = r.aceitas
             /\ ult' = [op |-> "lote_incremental", entrada |-> e,
                        relatorio |-> Relatorio(r), avisos |-> r.avisos,
                        alertas |-> r.alertas, upload_controle |-> r.upload_controle]
    /\ UNCHANGED <<vida, varsPuros>>

NextLote == ProcessarLoteVariado

SpecLote == InitSistema /\ [][NextLote]_vars

\* The last call was a run that went through its messages.
LoteConcluido ==
    /\ ult.op = "lote_incremental"
    /\ "processamento" \in DOMAIN ult.relatorio

(***************************************************************************)
(* C17  Record of an installation the ledger does not have                 *)
(***************************************************************************)
\* No row of the ledger has the installation of the PDF.
InstalacaoDesconhecida(controle, pdf_content) ==
    /\ remover_protecao_pdf(pdf_content)
    /\ extrair_dados_fatura(pdf_content) # Nenhum
    /\ \A i \in 1..Len(controle) :
          strip(controle[i].Numero_Instalacao)
              # strip(extrair_dados_fatura(pdf_content).numero_instalacao)

\* The PDFs of a message without those of unknown installations.
AnexosConhecidos(controle, anexos) ==
    LET Conhecida(pdf_content) == ~InstalacaoDesconhecida(controle, pdf_content)
    IN  SelectSeq(anexos, Conhecida)

\* The entrada of a run with every PDF of an unknown installation taken out
\* of its messages.
SemDesconhecidas(controle, e) ==
    [e EXCEPT !.emails = [k \in 1..Len(e.emails) |->
                            [e.emails[k] EXCEPT
                               !.anexos = AnexosConhecidos(controle, e.emails[k].anexos)]]]

\* The lines of a run that are not about the PDF of an unknown installation.
OutrosAvisos(controle, avisos) ==
    LET Outro(a) == a.de \in IdsEmail \/ ~InstalacaoDesconhecida(controle, a.de)
    IN  SelectSeq(avisos, Outro)

\* The lines of a run that say an installation was not found.
AvisosDeDesconhecida(avisos) ==
    {k \in 1..Len(avisos) : avisos[k].aviso = "instalacao_nao_encontrada"}

\* The PDFs of unknown installations a run comes to: those of the messages
\* that are new to the cache and to the batch, when the attachments are
\* delivered.
DesconhecidasDoLote(cache, controle, e) ==
    UNION { { <<k, j>> : j \in {i \in 1..Len(e.emails[k].anexos) :
                                  InstalacaoDesconhecida(controle, e.emails[k].anexos[i])} } :
            k \in {n \in 1..Len(e.emails) :
                     /\ e.download_ok
                     /\ e.emails[n].id \notin cache
                     /\ \A i \in 1..(n - 1) : e.emails[i].id # e.emails[n].id} }

\* What a run with a PDF of an unknown installation must leave: the ledger,
\* its counters, the acceptances and the report are those of the same run
\* without that PDF, and the run printed one line per such PDF.
PassoComDesconhecida ==
    (ult'.op = "lote_incremental" /\ "processamento" \in DOMAIN ult'.relatorio)
    => \E s \in {ExecutarLote(SemDesconhecidas(controle_mensal_dados', ult'.entrada))} :
          /\ controle_mensal_dados' = s.controle
          /\ estatisticas_duplicatas' = s.estatisticas
          /\ aceitas' = s.aceitas
          /\ ult'.relatorio.processamento = Relatorio(s).processamento
          /\ Len(ult'.relatorio.faturas_atualizadas) = Len(s.faturas_atualizadas)
          /\ \A k \in 1..Len(s.faturas_atualizadas) :
                ult'.relatorio.faturas_atualizadas[k].arquivo = s.faturas_atualizadas[k].arquivo
          /\ OutrosAvisos(controle_mensal_dados', ult'.avisos) = s.avisos
          /\ Cardinality(AvisosDeDesconhecida(ult'.avisos))
                = Cardinality(DesconhecidasDoLote(emails_processados_cache,
                                                  controle_mensal_dados', ult'.entrada))
          /\ \A k \in AvisosDeDesconhecida(ult'.avisos) :
                InstalacaoDesconhecida(controle_mensal_dados', ult'.avisos[k].de)

CategoriasDeAnomalia ==
    {"erro_buscando_anexos", "falha_descriptografia", "falha_extracao",
     "valor_nao_extraido", "instalacao_nao_encontrada", "email_ja_processado",
     "fatura_duplicada_hash", "duplicata_detectada"}

\* How often a kind of occurrence happened in the last run.
Ocorrencias(categoria) ==
    Cardinality({k \in 1..Len(ult.avisos) : ult.avisos[k].aviso = categoria})

\* The counter of the report the loop increments on the path of each kind of
\* occurrence ("" where the path increments none).
ContadorDaCategoria(categoria) ==
    CASE categoria = "email_ja_processado" -> "emails_duplicados_ignorados"
      [] categoria = "falha_descriptografia" -> "faturas_com_erro_valor"
      [] categoria = "valor_nao_extraido" -> "faturas_com_erro_valor"
      [] OTHER -> ""

\* The run returned a dict to its caller: a report, the short report of a
\* folder without messages, or the error of a step before the batch.
C18_SempreRetornaRelatorio ==
    ult.op = "lote_incremental" =>
        \/ "erro" \in DOMAIN ult.relatorio
        \/ ult.relatorio.status = "sucesso"

\* C18: the report of a run that went through its messages carries, for
\* every kind of occurrence, a count equal to the number of times it
\* happened, next to the counts of processed messages and accepted records.
C18_ReportCountsEveryCategory ==
    LoteConcluido =>
        /\ ult.relatorio.processamento.faturas_processadas
               = Len(ult.relatorio.faturas_atualizadas)
        /\ \A categoria \in CategoriasDeAnomalia :
              /\ ContadorDaCategoria(categoria) \in DOMAIN ult.relatorio.processamento
              /\ ult.relatorio.processamento[ContadorDaCategoria(categoria)]
                     = Ocorrencias(categoria)

\* The counts the report does carry are right: skipped messages, and the
\* PDFs without removable protection together with the records without total.
C18_ContagensPresentes ==
    LoteConcluido =>
        /\ ult.relatorio.processamento.emails_duplicados_ignorados
               = Ocorrencias("email_ja_processado")
        /\ ult.relatorio.processamento.faturas_com_erro_valor
               = Ocorrencias("falha_descriptografia") + Ocorrencias("valor_nao_extraido")
        /\ ult.relatorio.processamento.faturas_processadas
               = Len(ult.relatorio.faturas_atualizadas)

(***************************************************************************)
(* C19  Saving the ledger at the end of a batch                            *)
(***************************************************************************)
\* C19: a run that accepted at least one record and whose upload is
\* answered ends with the rows of the ledger written to OneDrive and
\* planilha_salva true in its report.
C19_LedgerPersistedAfterBatch ==
    (/\ LoteConcluido
     /\ ult.relatorio.processamento.faturas_processadas > 0
     /\ ult.entrada.sucesso)
    => /\ ult.relatorio.planilha_salva
       /\ ult.upload_controle # Nenhum

\* What the run does instead: nothing is uploaded and planilha_salva is
\* false in every report.
C19_NuncaSalva ==
    LoteConcluido =>
        /\ ~ult.relatorio.planilha_salva
        /\ ult.upload_controle = Nenhum

(***************************************************************************)
(* C20  Accepted records and their notification                            *)
(***************************************************************************)
\* C20: processar_alerta_fatura_enel is called, before the run returns, for
\* exactly the records the ledger accepted in the run, in their order.
C20_AcceptanceGatesNotification ==
    LoteConcluido =>
        /\ Len(ult.alertas) = Len(ult.relatorio.faturas_atualizadas)
        /\ \A k \in 1..Len(ult.alertas) :
              ult.alertas[k].instalacao = ult.relatorio.faturas_atualizadas[k].instalacao

\* The half of C20 the run keeps: no alert for a record that was not
\* accepted (no alert at all).
C20_NenhumAlertaNoLote ==
    ult.op = "lote_incremental" => ult.alertas = <<>>


(***************************************************************************)
(* Specification of the history queries: invoices of several periods       *)
(***************************************************************************)
MaxLinhasHistorico == 3   \* rows inserted before the history is asked for

\* Periods on both sides of a year boundary.
CompetenciasHistorico == {"11/2024", "12/2024", "01/2025"}

\* The record extraction hands over for the invoice of a period.
FaturaDoPeriodo(numero_instalacao, competencia) ==
    campos_enel("h.pdf", numero_instalacao, competencia, "10/" \o competencia,
                "718960000", "20/" \o competencia, 10000,
                100 * MesDaCompetencia(competencia), 0, 0)

\* Months since year 0 of a competencia: the chronological position.
Cronologia(competencia) ==
    AnoDaCompetencia(competencia) * 12 + MesDaCompetencia(competencia)

InitHistorico ==
    /\ db_onedrive = [existe |-> FALSE, faturas |-> <<>>]
    /\ faturas_enel = <<>>
    /\ ult = SemChamada
    /\ InitPlanilhaParada
    /\ InitEmailParado
    /\ InitPurosParados

\* DatabaseEnel.inserir_fatura for the invoice of a period.
InserirFaturaDoPeriodo ==
    /\ Len(faturas_enel) < MaxLinhasHistorico
    /\ \E numero_instalacao \in Instalacoes, competencia \in CompetenciasHistorico :
         \E r \in {inserir_fatura(faturas_enel, db_onedrive,
                                  FaturaDoPeriodo(numero_instalacao, competencia),
                                  "msg1", NoneTxt, TRUE)} :
             /\ faturas_enel' = r.faturas
             /\ db_onedrive' = r.onedrive
             /\ ult' = [op |-> "inserir_fatura_do_periodo", retorno |-> r.retorno]
    /\ UNCHANGED <<varsPuros, varsPlanilha, varsEmail, varsHistoria>>

\* DatabaseEnel.buscar_por_instalacao and obter_historico_instalacao_database
\* for one installation.
BuscarPorInstalacao ==
    /\ \E numero_instalacao \in Instalacoes :
         ult' = [op |-> "buscar_por_instalacao",
                 numero_instalacao |-> numero_instalacao,
                 resultados |-> buscar_por_instalacao(faturas_enel, numero_instalacao),
                 historico |-> historico_formatado(faturas_enel, numero_instalacao)]
    /\ UNCHANGED <<faturas_enel, db_onedrive, varsPuros, varsPlanilha, varsEmail,
                   varsHistoria>>

NextHistorico == InserirFaturaDoPeriodo \/ BuscarPorInstalacao

SpecHistorico == InitHistorico /\ [][NextHistorico]_vars

(***************************************************************************)
(* C21  History ordering                                                   *)
(***************************************************************************)
\* C21: buscar_por_instalacao and obter_historico_instalacao_database return
\* the rows of the installation from the most recent period to the oldest,
\* chronologically: no row is followed by a row of a later period, also when
\* the periods lie on both sides of a year boundary.
C21_HistoryChronologicalDesc ==
    ult.op = "buscar_por_instalacao" =>
        /\ \A i, j \in 1..Len(ult.resultados) :
             i < j => Cronologia(ult.resultados[i].competencia)
                        >= Cronologia(ult.resultados[j].competencia)
        /\ \A i, j \in 1..Len(ult.historico) :
             i < j => Cronologia(ult.historico[i].mes_ano)
                        >= Cronologia(ult.historico[j].mes_ano)

\* What the queries do give: every row of the installation, once, from the
\* greatest competencia text to the smallest.
C21_HistoryTextDesc ==
    ult.op = "buscar_por_instalacao" =>
        /\ Len(ult.resultados) = Cardinality(DaInstalacao(faturas_enel, ult.numero_instalacao))
        /\ Len(ult.historico) = Len(ult.resultados)
        /\ \A i, j \in 1..Len(ult.resultados) :
             i < j => /\ OrdemCompetencia(ult.resultados[i].competencia)
                           >= OrdemCompetencia(ult.resultados[j].competencia)
                      /\ OrdemCompetencia(ult.historico[i].mes_ano)
                           >= OrdemCompetencia(ult.historico[j].mes_ano)

\* The history of an installation with invoices of 12/2024 and 01/2025.
C21_AcrossYearBoundary ==
    /\ ult.op = "buscar_por_instalacao"
    /\ {"12/2024", "01/2025"} \subseteq
           {ult.resultados[k].competencia : k \in 1..Len(ult.resultados)}


(***************************************************************************)
(* Specification of the monthly control: sheets and periods of all kinds   *)
(***************************************************************************)
\* What OneDrive gives for relacao_enel.xlsx.
RespostasControle == {"planilha", "planilha_vencimentos", "planilha_repetida", "falha"}

\* (mes, ano) handed to carregar_planilha_controle_mensal: a month of 30 days,
\* a month of 31 days, February.
PeriodosControle == {<<6, 2025>>, <<12, 2024>>, <<2, 2025>>}

InitControle ==
    /\ InitPlanilhaParada
    /\ InitDatabaseParado
    /\ InitEmailParado
    /\ ult = SemChamada
    /\ InitPurosParados

\* PlanilhaManagerEnel.carregar_planilha_relacionamento_sem_pandas()
CarregarRelacionamentoDoControle ==
    /\ \E resposta \in RespostasControle :
         \E r \in {carregar_planilha_relacionamento_sem_pandas(relacionamentos_dados,
                                                               resposta)} :
             /\ relacionamentos_dados' = r.relacionamentos
             /\ ult' = [op |-> "carregar_planilha_relacionamento", retorno |-> r.retorno]
    /\ UNCHANGED <<controle_mensal_dados, estatisticas_duplicatas, varsDatabase,
                   varsEmail, varsHistoria, varsPuros>>

\* PlanilhaManagerEnel.carregar_planilha_controle_mensal(mes, ano).  `aceitas`
\* counts the acceptances on the row set in memory, so a new row set starts
\* it again.
CarregarControleDoPeriodo ==
    /\ \E resposta \in RespostasControle, periodo \in PeriodosControle :
         \E r \in {carregar_planilha_controle_mensal_de(
                       relacionamentos_dados, controle_mensal_dados, resposta,
                       periodo[1], periodo[2])} :
             /\ relacionamentos_dados' = r.relacionamentos
             /\ controle_mensal_dados' = r.controle
             /\ aceitas' = IF r.retorno THEN [i \in Instalacoes |-> 0] ELSE aceitas
             /\ ult' = [op |-> "carregar_planilha_controle_mensal", retorno |-> r.retorno,
                        mes |-> periodo[1], ano |-> periodo[2]]
    /\ UNCHANGED <<estatisticas_duplicatas, baixados, vida, varsDatabase, varsEmail,
                   varsPuros>>

\* PlanilhaManagerEnel.processar_fatura_incremental(dados_fatura)
AceitarFaturaNoControle ==
    /\ \E dados_fatura \in DadosFaturas :
         \E r \in {processar_fatura_incremental(controle_mensal_dados,
                                                estatisticas_duplicatas, dados_fatura)} :
             /\ r.estatisticas.faturas_duplicadas <= MaxDuplicatas
             /\ controle_mensal_dados' = r.controle
             /\ estatisticas_duplicatas' = r.estatisticas
             /\ aceitas' = ContarAceita(aceitas, dados_fatura, r.retorno)
             /\ ult' = [op |-> "processar_fatura_incremental", retorno |-> r.retorno,
                        dados |-> dados_fatura, aviso |-> r.aviso]
    /\ UNCHANGED <<relacionamentos_dados, baixados, vida, varsDatabase, varsEmail,
                   varsPuros>>

NextControle ==
    \/ CarregarRelacionamentoDoControle
    \/ CarregarControleDoPeriodo
    \/ AceitarFaturaNoControle

SpecControle == InitControle /\ [][NextControle]_vars

(***************************************************************************)
(* C22  Period initialization                                              *)
(***************************************************************************)
\* dd/mm/aaaa
DataFormada(dia, mes, ano) ==
    DoisDigitos(dia) \o "/" \o DoisDigitos(mes) \o "/" \o ToString(ano)

\* The due day of a relationship entry when it is a day of the month.
DiaConfigurado(relacionamento, mes, ano) ==
    /\ relacionamento.Vencimento \in {"10", "15", "20", "31"}
    /\ DiaVencimento(relacionamento.Vencimento) \in 1..DiasNoMes(mes, ano)

ControleRecemCriado ==
    ult.op = "carregar_planilha_controle_mensal" /\ ult.retorno

C22_DiaPadrao ==
    ControleRecemCriado =>
        \A i \in 1..Len(controle_mensal_dados) :
            ~DiaConfigurado(relacionamentos_dados[i], ult.mes, ult.ano) =>
                controle_mensal_dados[i].Vencimento = DataFormada(15, ult.mes, ult.ano)


(***************************************************************************)
(* C23  Average edge cases                                                 *)
(***************************************************************************)
Abs(n) == IF n < 0 THEN 0 - n ELSE n

RECURSIVE Mdc(_, _)
Mdc(a, b) == IF b = 0 THEN a ELSE Mdc(b, a % b)

\* A fraction of positive denominator in lowest terms.
Reduzida(f) ==
    LET g == Mdc(Abs(f.num), f.den) IN Frac(f.num \div g, f.den \div g)

\* C23: calcular_media_e_diferenca_enel returns (current, 0, 0) for a history
\* of one entry and for a history whose window (the up to six entries after
\* the first) has no entry with positive consumption; otherwise the average
\* is the sum of the positive window entries divided by their number, the
\* entries <= 0 counting neither in the sum nor in the number, and
\* diferenca_percentual = (current - average) / average * 100.  An empty
\* history gives (0, 0, 0).
C23_AverageEdgeCases ==
    resultado_calculo # Nenhum =>
      LET h == historico_consumo
          P == PosicoesJanela(h)
          media == resultado_calculo.media_6_meses
          dif == resultado_calculo.diferenca_percentual
      IN  /\ Len(h) = 0 =>
                /\ resultado_calculo.consumo_atual = 0
                /\ media.num = 0 /\ dif.num = 0
          /\ Len(h) >= 1 => resultado_calculo.consumo_atual = h[1]
          /\ (Len(h) >= 1 /\ P = {}) => media.num = 0 /\ dif.num = 0
          /\ P # {} =>
                /\ FracGt(media, 0)
                /\ media.num * Cardinality(P) = SomaPos(h, P) * media.den
                /\ Reduzida(dif)
                     = Reduzida(Frac((h[1] * Cardinality(P) - SomaPos(h, P)) * 100,
                                     SomaPos(h, P)))

\* Current 900 over a window holding 600 and an entry of 0: the average is
\* 600 and not 300, the deviation +50%.
C23_Witness ==
    /\ resultado_calculo # Nenhum
    /\ historico_consumo = <<900, 0, 600>>
    /\ FracEq(resultado_calculo.media_6_meses, Frac(600, 1))
    /\ FracEq(resultado_calculo.diferenca_percentual, Frac(50, 1))


(***************************************************************************)
(* pdf_processor.py: conversion of the photovoltaic fields                 *)
(***************************************************************************)
\* converter_valor_monetario: 0.0 for a field that was not found and for a
\* text float() refuses.
converter_valor_monetario(valor_str) ==
    IF valor_str = NaoEncontrado \/ valor_str = <<>> THEN Frac(0, 1)
    ELSE LET numero == float(valor_limpo(valor_str))
         IN  IF numero = Nenhum THEN Frac(0, 1) ELSE numero

\* int(campos[...]) inside try/except for energia_injetada and
\* energia_compensada: a text of digits only gives its value, "N/A" and every
\* text with a dot or a comma give 0.
int_ou_zero(texto) ==
    IF texto = NaoEncontrado \/ texto = <<>> THEN 0
    ELSE IF \A k \in 1..Len(texto) : EhDigito(texto[k]) THEN InteiroDe(texto)
    ELSE 0

\* A number of reais (or kWh) in hundredths.
Centesimos(f) == (f.num * 100) \div f.den

(***************************************************************************)
(* Specification of the photovoltaic fields: extraction, then acceptance   *)
(***************************************************************************)
\* What the search for valor_total leaves in campos: not found, 0,00, 99,00.
TextosValorFotovoltaico ==
    {NaoEncontrado, <<"0", ",", "0", "0">>, <<"9", "9", ",", "0", "0">>}

LeituraFotovoltaica(tusd, te, injetada, compensada, saldo) ==
    [compensacao_tusd |-> tusd, compensacao_te |-> te, energia_injetada |-> injetada,
     energia_compensada |-> compensada, saldo_creditos |-> saldo]

\* What the searches for the photovoltaic fields leave in campos: nothing
\* found; the two compensation amounts (10,00 and 5,00); injected energy
\* alone (120); compensated energy alone, written 239 and 239,182; the
\* credit balance alone, written 1.450,0 and 0,0.
LeiturasFotovoltaicas ==
    { LeituraFotovoltaica(NaoEncontrado, NaoEncontrado, NaoEncontrado, NaoEncontrado,
                          NaoEncontrado),
      LeituraFotovoltaica(<<"1", "0", ",", "0", "0">>, <<"5", ",", "0", "0">>,
                          NaoEncontrado, NaoEncontrado, NaoEncontrado),
      LeituraFotovoltaica(NaoEncontrado, NaoEncontrado, <<"1", "2", "0">>, NaoEncontrado,
                          NaoEncontrado),
      LeituraFotovoltaica(NaoEncontrado, NaoEncontrado, NaoEncontrado,
                          <<"2", "3", "9">>, NaoEncontrado),
      LeituraFotovoltaica(NaoEncontrado, NaoEncontrado, NaoEncontrado,
                          <<"2", "3", "9", ",", "1", "8", "2">>, NaoEncontrado),
      LeituraFotovoltaica(NaoEncontrado, NaoEncontrado, NaoEncontrado, NaoEncontrado,
                          <<"1", ".", "4", "5", "0", ",", "0">>),
      LeituraFotovoltaica(NaoEncontrado, NaoEncontrado, NaoEncontrado, NaoEncontrado,
                          <<"0", ",", "0">>) }

\* The closing steps of _extrair_campos_enel on the matched texts.
extrair_campos_fotovoltaicos(valor_total, leitura) ==
    LET valor == converter_valor_total(valor_total).valor_total_num
    IN  campos_enel_com_energia(
            "f.pdf", "111", "06/2025", "10/06/2025", "718968500", "14/07/2025",
            IF valor = Nenhum THEN NoneNum ELSE Centesimos(valor),
            280,
            Centesimos(converter_valor_monetario(leitura.compensacao_tusd)),
            Centesimos(converter_valor_monetario(leitura.compensacao_te)),
            int_ou_zero(leitura.energia_injetada),
            int_ou_zero(leitura.energia_compensada),
            Centesimos(converter_valor_monetario(leitura.saldo_creditos)))

\* The monthly control of the current period is in memory.
InitFotovoltaico ==
    /\ relacionamentos_dados = PlanilhaRelacionamento
    /\ controle_mensal_dados
         = criar_controle_mensal_sem_pandas(PlanilhaRelacionamento, MesAtual, AnoAtual)
    /\ estatisticas_duplicatas = EstatisticasIniciais
    /\ InitDatabaseParado
    /\ InitEmailParado
    /\ ult = SemChamada
    /\ InitPurosParados

\* PDFProcessor._extrair_campos_enel
ExtrairCamposFotovoltaicos ==
    /\ \E valor_total \in TextosValorFotovoltaico, leitura \in LeiturasFotovoltaicas :
         ult' = [op |-> "extrair_campos_fotovoltaicos", valor_total |-> valor_total,
                 leitura |-> leitura,
                 campos |-> extrair_campos_fotovoltaicos(valor_total, leitura)]
    /\ UNCHANGED <<varsDatabase, varsPlanilha, varsEmail, varsHistoria, varsPuros>>

\* PlanilhaManagerEnel.processar_fatura_incremental on the record extracted.
AceitarCamposFotovoltaicos ==
    /\ ult.op = "extrair_campos_fotovoltaicos"
    /\ \E r \in {processar_fatura_incremental(controle_mensal_dados,
                                              estatisticas_duplicatas, ult.campos)} :
         /\ r.estatisticas.faturas_duplicadas <= MaxDuplicatas
         /\ controle_mensal_dados' = r.controle
         /\ estatisticas_duplicatas' = r.estatisticas
         /\ aceitas' = ContarAceita(aceitas, ult.campos, r.retorno)
         /\ ult' = [op |-> "aceitar_campos_fotovoltaicos", retorno |-> r.retorno,
                    dados |-> ult.campos]
    /\ UNCHANGED <<relacionamentos_dados, baixados, vida, varsDatabase, varsEmail,
                   varsPuros>>

NextFotovoltaico == ExtrairCamposFotovoltaicos \/ AceitarCamposFotovoltaicos

SpecFotovoltaico == InitFotovoltaico /\ [][NextFotovoltaico]_vars

(***************************************************************************)
(* C24  Derived offset-generation economics                                *)
(***************************************************************************)
\* total / integral * 100 as an exact fraction, 0 when integral is 0.
EconomiaEsperada(total, integral) ==
    IF integral = 0 THEN Frac(0, 1) ELSE Frac(total * 100, integral)

\* The record has the flag and an amount that was resolved.
FotovoltaicoComValor(campos) ==
    campos.sistema_fotovoltaico = "Sim" /\ campos.valor_total_num # NoneNum

\* C24: every extracted record with sistema_fotovoltaico 'Sim' and a resolved
\* amount, an amount of 0 included, has valor_integral_sem_fv = valor_total_num
\* + total_compensacao and percentual_economia_fv = total_compensacao /
\* valor_integral_sem_fv * 100 (0 when valor_integral_sem_fv is 0); the row
\* that accepted such a record has Valor_Integral_Sem_FV and
\* Percentual_Economia_FV (rounded to two places) by the same formulas.
C24_OffsetEconomics ==
    /\ (ult.op = "extrair_campos_fotovoltaicos" /\ FotovoltaicoComValor(ult.campos)) =>
         LET campos == ult.campos
             integral == campos.valor_total_num + campos.total_compensacao
         IN  /\ campos.valor_integral_sem_fv = integral
             /\ FracEq(campos.percentual_economia_fv,
                       EconomiaEsperada(campos.total_compensacao, integral))
    /\ (/\ ult.op = "aceitar_campos_fotovoltaicos" /\ ult.retorno
        /\ FotovoltaicoComValor(ult.dados)) =>
         LET registro == controle_mensal_dados[1]
             integral == ult.dados.valor_total_num + ult.dados.total_compensacao
         IN  /\ registro.Valor_Integral_Sem_FV = integral
             /\ registro.Percentual_Economia_FV
                  = Round2(EconomiaEsperada(ult.dados.total_compensacao, integral))

\* What holds: the formulas for a flagged record whose amount is not 0, and
\* for the row of every accepted flagged record with a resolved amount.
C24_EconomiaComValorPositivo ==
    /\ (/\ ult.op = "extrair_campos_fotovoltaicos" /\ FotovoltaicoComValor(ult.campos)
        /\ ult.campos.valor_total_num # 0) =>
         LET campos == ult.campos
             integral == campos.valor_total_num + campos.total_compensacao
         IN  /\ campos.valor_integral_sem_fv = integral
             /\ FracEq(campos.percentual_economia_fv,
                       EconomiaEsperada(campos.total_compensacao, integral))
    /\ (/\ ult.op = "aceitar_campos_fotovoltaicos" /\ ult.retorno
        /\ FotovoltaicoComValor(ult.dados)) =>
         LET registro == controle_mensal_dados[1]
             integral == ult.dados.valor_total_num + ult.dados.total_compensacao
         IN  /\ registro.Valor_Integral_Sem_FV = integral
             /\ registro.Percentual_Economia_FV
                  = Round2(EconomiaEsperada(ult.dados.total_compensacao, integral))

\* A flagged record of amount 0,00 with compensation was extracted.
C24_ValorZeroComCompensacao ==
    /\ ult.op = "extrair_campos_fotovoltaicos"
    /\ ult.campos.valor_total_num = 0
    /\ ult.campos.total_compensacao = 1500
    /\ ult.campos.valor_integral_sem_fv = 0

(***************************************************************************)
(* C25  The photovoltaic flag                                              *)
(***************************************************************************)
\* The text found for a field denotes a quantity above zero: it has a digit
\* other than 0.
QuantidadePositiva(texto) ==
    /\ texto # NaoEncontrado
    /\ \E k \in 1..Len(texto) : EhDigito(texto[k]) /\ texto[k] # "0"

\* C25: sistema_fotovoltaico is 'Sim' exactly when one at least of the
\* injected energy, the compensated energy, the total compensation and the
\* credit balance found in the text is above zero, each of them alone and in
\* every numeric format its patterns capture (a compensated energy written
\* 239,182 included).
C25_FlagIsOrOfFourSignals ==
    ult.op = "extrair_campos_fotovoltaicos" =>
        (ult.campos.sistema_fotovoltaico = "Sim"
           <=> \/ QuantidadePositiva(ult.leitura.energia_injetada)
               \/ QuantidadePositiva(ult.leitura.energia_compensada)
               \/ QuantidadePositiva(ult.leitura.compensacao_tusd)
               \/ QuantidadePositiva(ult.leitura.compensacao_te)
               \/ QuantidadePositiva(ult.leitura.saldo_creditos))

\* What holds: the flag is the OR of the four converted numbers.
C25_FlagIsOrOfConvertedNumbers ==
    ult.op = "extrair_campos_fotovoltaicos" =>
        (ult.campos.sistema_fotovoltaico = "Sim"
           <=> \/ int_ou_zero(ult.leitura.energia_injetada) > 0
               \/ int_ou_zero(ult.leitura.energia_compensada) > 0
               \/ ult.campos.total_compensacao > 0
               \/ FracGt(converter_valor_monetario(ult.leitura.saldo_creditos), 0))

\* Compensated energy 239,182 was the only photovoltaic field found.
C25_CompensadaComVirgula ==
    /\ ult.op = "extrair_campos_fotovoltaicos"
    /\ ult.leitura.energia_compensada = <<"2", "3", "9", ",", "1", "8", "2">>
    /\ ult.campos.sistema_fotovoltaico = "Nao"


(***************************************************************************)
(* C26  Ledger counters                                                    *)
(***************************************************************************)
RECURSIVE SomaDasAceitas(_, _)
SomaDasAceitas(contagem, instalacoes) ==
    IF instalacoes = {} THEN 0
    ELSE LET i == CHOOSE x \in instalacoes : TRUE
         IN  contagem[i] + SomaDasAceitas(contagem, instalacoes \ {i})

LinhasRecebidas(controle) == {i \in 1..Len(controle) : controle[i].Status = "Recebida"}

\* The row a call for the record is about: the first one with its
\* installation number, 0 when the row set has none.
LinhaAlvo(controle, dados_fatura) ==
    LET linhas == LinhasDaInstalacao(controle, dados_fatura)
    IN  IF linhas = {} THEN 0 ELSE CHOOSE i \in linhas : \A j \in linhas : i <= j

ContadoresDoControle ==
    /\ \A i \in 1..Len(controle_mensal_dados) :
         controle_mensal_dados[i].Status \in {"Faltando", "Recebida"}
    /\ SomaDasAceitas(aceitas, Instalacoes) = Cardinality(LinhasRecebidas(controle_mensal_dados))
    /\ estatisticas_duplicatas.faturas_duplicadas
         = Len(estatisticas_duplicatas.instalacoes_reprocessadas)

PassoDosContadores ==
    ult'.op = "processar_fatura_incremental" =>
        LET alvo == LinhaAlvo(controle_mensal_dados, ult'.dados)
            ja_recebida == alvo # 0 /\ controle_mensal_dados[alvo].Status = "Recebida"
        IN  /\ estatisticas_duplicatas'.faturas_duplicadas
                 = estatisticas_duplicatas.faturas_duplicadas + (IF ja_recebida THEN 1 ELSE 0)
            /\ ja_recebida => ~ult'.retorno /\ controle_mensal_dados' = controle_mensal_dados
            /\ alvo = 0 =>
                 /\ ~ult'.retorno
                 /\ controle_mensal_dados' = controle_mensal_dados
                 /\ estatisticas_duplicatas' = estatisticas_duplicatas
                 /\ aceitas' = aceitas

\* C26: whatever calls of processar_fatura_incremental were made on the row
\* set in memory, every Status is 'Faltando' or 'Recebida', the calls that
\* returned True are as many as the rows with Status 'Recebida', and
\* faturas_duplicadas is the length of instalacoes_reprocessadas; each call
\* adds one to faturas_duplicadas exactly when the row it is about was
\* already 'Recebida', and a call for an installation without a row changes
\* no row and no counter.
C26_LedgerCounters == []ContadoresDoControle /\ [][PassoDosContadores]_vars

\* One invoice accepted, a second one for the same installation counted as a
\* duplicate, on the control of a period.
C26_Witness ==
    /\ ult.op = "processar_fatura_incremental" /\ ~ult.retorno
    /\ ult.aviso = "duplicata_detectada"
    /\ estatisticas_duplicatas.faturas_duplicadas = 1
    /\ Cardinality(LinhasRecebidas(controle_mensal_dados)) = 1
    /\ aceitas["111"] = 1


(***************************************************************************)
(* C27  The store and the ledger decide separately                         *)
(***************************************************************************)
AvisosDaPlanilha ==
    {"instalacao_nao_encontrada", "duplicata_detectada", "controle_nao_carregado"}

\* PDFs of the run whose record the ledger refused, and those whose content
\* the store refused.
RecusasDaPlanilha(avisos) ==
    Cardinality({k \in 1..Len(avisos) : avisos[k].aviso \in AvisosDaPlanilha})

RecusasDoDatabase(avisos) ==
    Cardinality({k \in 1..Len(avisos) : avisos[k].aviso = "fatura_duplicada_hash"})

PassoDatabaseEPlanilha ==
    (ult'.op = "lote_incremental" /\ "processamento" \in DOMAIN ult'.relatorio) =>
        /\ (Len(faturas_enel') - Len(faturas_enel)) + RecusasDoDatabase(ult'.avisos)
             = ult'.relatorio.processamento.faturas_processadas
                 + RecusasDaPlanilha(ult'.avisos)
        /\ \A k \in 1..Len(ult'.avisos) :
             ult'.avisos[k].aviso = "fatura_duplicada_hash" =>
                 \/ \E j \in 1..Len(ult'.avisos) :
                      /\ j > k
                      /\ ult'.avisos[j].de = ult'.avisos[k].de
                      /\ ult'.avisos[j].aviso \in AvisosDaPlanilha
                 \/ \E j \in 1..Len(ult'.relatorio.faturas_atualizadas) :
                      /\ ~ult'.relatorio.faturas_atualizadas[j].database_salvo
                      /\ ult'.relatorio.faturas_atualizadas[j].arquivo
                           = DadosDosPdfs[ult'.avisos[k].de].arquivo

\* C27: in every run each extracted record is handed to inserir_fatura and
\* then to processar_fatura_incremental, whatever inserir_fatura answered: the
\* rows the store gained plus the contents it refused as duplicates are as
\* many as the records the ledger accepted plus those it refused, and every
\* content the store refused has its ledger decision after it, an acceptance
\* (reported with database_salvo False) or a refusal.
C27_StoreThenLedger == [][PassoDatabaseEPlanilha]_vars

\* A record whose content the store refused as a duplicate was accepted by
\* the ledger.
C27_Witness ==
    /\ LoteConcluido
    /\ \E j \in 1..Len(ult.relatorio.faturas_atualizadas) :
         ~ult.relatorio.faturas_atualizadas[j].database_salvo
    /\ RecusasDoDatabase(ult.avisos) > 0

\* A record the ledger refused for its unknown installation is in the store.
C27_RecusadaPelaPlanilhaNoDatabase ==
    /\ LoteConcluido
    /\ \E k \in 1..Len(ult.avisos) : ult.avisos[k].aviso = "instalacao_nao_encontrada"
    /\ \E i \in 1..Len(faturas_enel) : faturas_enel[i].numero_instalacao = "999"

\* The store holds two records of one installation and period.
C27_DoisRegistrosDoPeriodo ==
    \E i, j \in 1..Len(faturas_enel) :
        /\ i < j
        /\ faturas_enel[i].numero_instalacao = faturas_enel[j].numero_instalacao
        /\ faturas_enel[i].competencia = faturas_enel[j].competencia


(***************************************************************************)
(* C28  A message is marked before it is handled                           *)
(***************************************************************************)
IdsDoLote(entrada) == {entrada.emails[k].id : k \in 1..Len(entrada.emails)}

PassoMarcaAntesDeProcessar ==
    (ult'.op = "lote_incremental" /\ "processamento" \in DOMAIN ult'.relatorio) =>
        /\ emails_processados_cache'
             = emails_processados_cache \cup IdsDoLote(ult'.entrada)
        /\ \A id \in emails_processados_cache : baixados'[id] = baixados[id]
        /\ IdsDoLote(ult'.entrada) \subseteq emails_processados_cache =>
             /\ faturas_enel' = faturas_enel
             /\ aceitas' = aceitas
             /\ ult'.relatorio.processamento.faturas_processadas = 0
             /\ ult'.relatorio.processamento.emails_duplicados_ignorados
                  = Len(ult'.entrada.emails)
             /\ \A k \in 1..Len(ult'.avisos) :
                  ult'.avisos[k].aviso = "email_ja_processado"

\* C28: a run leaves in emails_processados_cache the id of every message it
\* was given, whether the attachments were downloaded, decrypted, extracted
\* and accepted or not; in every later run of the process a message whose id
\* is in the cache is skipped as a duplicate: its attachments are not
\* requested again, no record of it reaches the store or the ledger.
C28_MarkedBeforeHandled == [][PassoMarcaAntesDeProcessar]_vars

\* msg1 was given to a run whose attachment request failed, and given again
\* to a run whose requests succeed: it is skipped, and the store has no row
\* of it.
C28_Witness ==
    /\ LoteConcluido
    /\ ult.entrada.download_ok
    /\ IdsDoLote(ult.entrada) = {"msg1"}
    /\ ult.relatorio.processamento.emails_duplicados_ignorados = Len(ult.entrada.emails)
    /\ baixados["msg1"] = 1
    /\ \A i \in 1..Len(faturas_enel) : faturas_enel[i].email_id # "msg1"


(***************************************************************************)
(* C29  The classifier is total over the six tiers                         *)
(***************************************************************************)
TiposDeAlerta ==
    {"sem_dados", "sem_historico", "consumo_moderado", "consumo_acima_media",
     "consumo_alto", "consumo_critico"}

\* C29: for every pair (consumo_atual, media_6_meses) of numbers or None
\* determinar_tipo_alerta_consumo answers one of the six tiers, never
\* 'consumo_normal' and never 'erro'; consumo_atual <= 0 (or None) gives
\* sem_dados whatever the average, with porcentagem_consumo 0; sem_historico
\* is given exactly for a positive consumo_atual with an average <= 0 (or
\* None), with porcentagem_consumo 100 and diferenca_percentual 0.
C29_ClassifierTotal ==
    classificacao # Nenhum =>
      LET c == consumo_atual
          m == media_6_meses
          t == classificacao.tipo_alerta
      IN  /\ t \in TiposDeAlerta
          /\ t = "sem_dados" <=> (c = NoneNum \/ c <= 0)
          /\ t = "sem_dados" =>
               /\ FracEq(classificacao.porcentagem_consumo, Frac(0, 1))
               /\ FracEq(classificacao.diferenca_percentual, Frac(0, 1))
          /\ t = "sem_historico" <=> (c # NoneNum /\ c > 0 /\ (m = NoneNum \/ m <= 0))
          /\ t = "sem_historico" =>
               /\ FracEq(classificacao.porcentagem_consumo, Frac(100, 1))
               /\ FracEq(classificacao.diferenca_percentual, Frac(0, 1))

\* Neither consumption nor average: the answer is sem_dados, not
\* sem_historico.
C29_Witness ==
    /\ classificacao # Nenhum
    /\ consumo_atual = 0 /\ media_6_meses = 0
    /\ classificacao.tipo_alerta = "sem_dados"


(***************************************************************************)
(* C30  Two rows of one installation                                       *)
(***************************************************************************)
\* Rows whose installation number an earlier row already has.
LinhasRepetidas(controle) ==
    {i \in 1..Len(controle) :
        \E j \in 1..(i - 1) :
            strip(controle[j].Numero_Instalacao) = strip(controle[i].Numero_Instalacao)}

\* C30: an acceptance marks the first row that has the installation number of
\* the record; a row whose installation number an earlier row has is
\* 'Faltando' after any sequence of calls, so a control built from a
\* relationship that lists an installation twice (one row per entry) never has
\* all its rows 'Recebida'.
C30_FirstRowOnly ==
    /\ \A i \in LinhasRepetidas(controle_mensal_dados) :
         controle_mensal_dados[i].Status = "Faltando"
    /\ (ult.op = "processar_fatura_incremental" /\ ult.retorno) =>
         /\ LinhaAlvo(controle_mensal_dados, ult.dados) # 0
         /\ controle_mensal_dados[LinhaAlvo(controle_mensal_dados, ult.dados)].Status
              = "Recebida"
    /\ (ControleRecemCriado /\ relacionamentos_dados = PlanilhaRepetida) =>
         LinhasRepetidas(controle_mensal_dados) = {2}
    /\ LinhasRepetidas(controle_mensal_dados) # {} =>
         LinhasRecebidas(controle_mensal_dados) # 1..Len(controle_mensal_dados)

\* The control has two rows of installation 111; the first is received, the
\* invoices of 222 too, and a further invoice of 111 was counted as a
\* duplicate: the second row of 111 is still outstanding.
C30_Witness ==
    /\ ult.op = "processar_fatura_incremental" /\ ~ult.retorno
    /\ ult.aviso = "duplicata_detectada"
    /\ strip(ult.dados.numero_instalacao) = "111"
    /\ Len(controle_mensal_dados) = 3
    /\ LinhasRepetidas(controle_mensal_dados) = {2}
    /\ LinhasRecebidas(controle_mensal_dados) = {1, 3}

=============================================================================
